---- MODULE Spec2Model ----
(***************************************************************************)
(* A model of the Adderscript compiler: the scanner, the parser of         *)
(* triggers and integer literals, runtime manifest loading and lookup,     *)
(* semantic analysis, bytecode assembly with label back-patching, the      *)
(* layout pass, constant-pool interning and the binary encoder.            *)
(*                                                                         *)
(* Pointers are modelled as 1-based positions in the slice they point      *)
(* into, 0 being nil.  A panic is modelled by a non-empty err field, after *)
(* which no further step of the pipeline changes anything.                 *)
(***************************************************************************)
EXTENDS Integers, Sequences, FiniteSets, TLC

VARIABLES pc, runtime, nodes, program, cpool, binary, err, call, hist, scan, channel,
          collector

vars ==
    <<pc, runtime, nodes, program, cpool, binary, err, call, hist, scan, channel, collector>>

(***************************************************************************)
(* Bounds of the model.                                                    *)
(***************************************************************************)
MaxVal == 1
MaxCalls == 4
MaxFuncs == 2
MaxArgs == 2
MaxNest == 2
MaxDecls == 3
MaxLines == 3
MaxDigits == 2
MaxPieces == 3
MaxOperators == 2

(***************************************************************************)
(* Opcodes.                                                                *)
(***************************************************************************)
op_pushconst == 0
op_jmp == 1
op_getlocal == 2
op_setlocal == 3
op_return == 4
op_jz == 5
op_eq == 6
op_call == 7
op_nativecall == 8
op_add == 9
op_sub == 10
op_div == 11
op_mul == 12
op_mod == 13
op_label == 255

AbiVersion == 3

(***************************************************************************)
(* Variable types (struct equality on builtin, keyword, native).           *)
(***************************************************************************)
VarTypeInt == [builtin |-> TRUE, keyword |-> "int", native |-> ""]
VarTypeLong == [builtin |-> TRUE, keyword |-> "long", native |-> ""]
VarTypeString == [builtin |-> TRUE, keyword |-> "string", native |-> ""]
VarTypeBool == [builtin |-> TRUE, keyword |-> "bool", native |-> ""]
VarTypeVoid == [builtin |-> TRUE, keyword |-> "void", native |-> ""]
VarTypeUnresolved == [builtin |-> TRUE, keyword |-> "MISSING_TYPE", native |-> ""]

\* strings.HasPrefix and strings.HasSuffix.
HasPrefix(s, prefix) == Len(s) >= Len(prefix) /\ SubSeq(s, 1, Len(prefix)) = prefix

HasSuffix(s, suffix) ==
    Len(s) >= Len(suffix) /\ SubSeq(s, Len(s) - Len(suffix) + 1, Len(s)) = suffix

\* strings.Replace(s, old, "", -1) from position i on: every occurrence of
\* a non-empty old, found from left to right, is left out.
RECURSIVE removeFrom(_, _, _)
removeFrom(s, old, i) ==
    IF i > Len(s) THEN ""
    ELSE IF i + Len(old) - 1 <= Len(s) /\ SubSeq(s, i, i + Len(old) - 1) = old
         THEN removeFrom(s, old, i + Len(old))
         ELSE SubSeq(s, i, i) \o removeFrom(s, old, i + 1)

\* The tag of a native type text: all ">" removed, then all "native<".
NativeTagOf(varType) == removeFrom(removeFrom(varType, ">", 1), "native<", 1)

ResolveVarType(varType) ==
    CASE varType = "int" -> VarTypeInt
      [] varType = "long" -> VarTypeLong
      [] varType = "string" -> VarTypeString
      [] varType = "bool" -> VarTypeBool
      [] OTHER -> IF HasPrefix(varType, "native<") /\ HasSuffix(varType, ">")
                  THEN [builtin |-> FALSE, keyword |-> "native", native |-> NativeTagOf(varType)]
                  ELSE VarTypeUnresolved

\* The text of a variable type in diagnostics.
TypeString(t) ==
    CASE t = VarTypeString -> "string"
      [] t = VarTypeInt -> "int"
      [] t = VarTypeLong -> "long"
      [] t = VarTypeBool -> "bool"
      [] t = VarTypeVoid -> "void"
      [] t = VarTypeUnresolved -> "unresolved"
      [] OTHER -> "undefined"

ResolveType(typ) == IF typ = "void" THEN VarTypeVoid ELSE ResolveVarType(typ)

(***************************************************************************)
(* Characters and strings.  A character of a text is a one-character       *)
(* string, or NUL for the byte 0; the texts of the model are written in    *)
(* the tab, the newline, the form feed, the carriage return, the printable *)
(* ASCII characters other than the grave accent, and NUL.  A Go string is  *)
(* the sequence of its bytes.                                              *)
(***************************************************************************)
\* The character of byte 0.
NUL == "NUL"

\* The printable ASCII characters from the blank (32) to the underscore
\* (95) and from a (97) to the tilde (126).
AsciiUpTo95 ==
    " !" \o "\"" \o "#$%&'()*+,-./0123456789:;<=>?@ABCDEFGHIJKLMNOPQRSTUVWXYZ[" \o "\\"
    \o "]^_"

AsciiFrom97 == "abcdefghijklmnopqrstuvwxyz{|}~"

IndexIn(s, c) == CHOOSE k \in 1..Len(s) : SubSeq(s, k, k) = c

\* The byte of a character.
ByteOf(c) ==
    CASE c = NUL -> 0
      [] c = "\t" -> 9
      [] c = "\n" -> 10
      [] c = "\f" -> 12
      [] c = "\r" -> 13
      [] \E k \in 1..Len(AsciiUpTo95) : SubSeq(AsciiUpTo95, k, k) = c ->
            31 + IndexIn(AsciiUpTo95, c)
      [] \E k \in 1..Len(AsciiFrom97) : SubSeq(AsciiFrom97, k, k) = c ->
            96 + IndexIn(AsciiFrom97, c)

\* The Go string written by a text without NUL, from position i on.
RECURSIVE bytesFrom(_, _)
bytesFrom(s, i) ==
    IF i > Len(s) THEN <<>> ELSE <<ByteOf(SubSeq(s, i, i))>> \o bytesFrom(s, i + 1)

StringBytes(s) == bytesFrom(s, 1)

(***************************************************************************)
(* Dynamically typed values (Go interface{}): the dynamic type and the     *)
(* value.  Two values are equal iff both agree.                            *)
(***************************************************************************)
\* A 64-bit integer is kept as its four 16-bit words, most significant
\* first, in two's complement.
Word == 65536

\* The int64 of a number between -2^31 and 2^31 - 1.
int64Of(i) ==
    IF i >= 0 THEN <<0, 0, i \div Word, i % Word>>
    ELSE <<Word - 1, Word - 1, (i \div Word) % Word, i % Word>>

IntV(i) == [dyn |-> "int", i |-> i, s |-> <<>>, b |-> FALSE, w |-> <<>>]
LongW(w) == [dyn |-> "int64", i |-> 0, s |-> <<>>, b |-> FALSE, w |-> w]
LongV(i) == LongW(int64Of(i))
StrV(s) == [dyn |-> "string", i |-> 0, s |-> s, b |-> FALSE, w |-> <<>>]
BoolV(b) == [dyn |-> "bool", i |-> 0, s |-> <<>>, b |-> b, w |-> <<>>]

(***************************************************************************)
(* Constant pool.  Each get returns the pool after the call and the index  *)
(* returned (0-based, as in the code).                                     *)
(***************************************************************************)
RECURSIVE poolSearch(_, _, _, _)
poolSearch(values, t, v, k) ==
    IF k > Len(values) THEN -1
    ELSE IF values[k].Type = t /\ values[k].Value = v THEN k - 1
    ELSE poolSearch(values, t, v, k + 1)

\* A variant of getInt that appends without searching.
getIntNoSearch(values, i) ==
    [values |-> Append(values, [Type |-> VarTypeInt, Value |-> IntV(i)]), index |-> Len(values)]

getInt(values, i) ==
    LET k == poolSearch(values, VarTypeInt, IntV(i), 1)
    IN IF k >= 0 THEN [values |-> values, index |-> k]
       ELSE [values |-> Append(values, [Type |-> VarTypeInt, Value |-> IntV(i)]),
             index |-> Len(values)]

getLong(values, i) ==
    LET k == poolSearch(values, VarTypeLong, LongW(i), 1)
    IN IF k >= 0 THEN [values |-> values, index |-> k]
       ELSE [values |-> Append(values, [Type |-> VarTypeLong, Value |-> LongW(i)]),
             index |-> Len(values)]

getString(values, s) ==
    LET k == poolSearch(values, VarTypeString, StrV(s), 1)
    IN IF k >= 0 THEN [values |-> values, index |-> k]
       ELSE [values |-> Append(values, [Type |-> VarTypeString, Value |-> StrV(s)]),
             index |-> Len(values)]

(***************************************************************************)
(* Runtime manifest lookups.                                               *)
(***************************************************************************)
RECURSIVE paramsMatch(_, _, _)
paramsMatch(params, types, i) ==
    IF i > Len(params) THEN TRUE
    ELSE IF params[i].Type # types[i] THEN FALSE
    ELSE paramsMatch(params, types, i + 1)

RECURSIVE findFunctionFrom(_, _, _, _)
findFunctionFrom(functions, name, types, k) ==
    IF k > Len(functions) THEN 0
    ELSE IF functions[k].Name = name /\ Len(functions[k].Parameters) = Len(types)
            /\ paramsMatch(functions[k].Parameters, types, 1)
         THEN k
         ELSE findFunctionFrom(functions, name, types, k + 1)

\* A variant of the lookup that matches on the name alone.
FindFunctionWithArgumentsByName(r, name, types) ==
    LET S == {k \in 1..Len(r.Functions) : r.Functions[k].Name = name}
    IN IF S = {} THEN 0 ELSE CHOOSE k \in S : \A j \in S : k <= j

FindFunctionWithArguments(r, name, types) == findFunctionFrom(r.Functions, name, types, 1)

RECURSIVE findListenerFrom(_, _, _)
findListenerFrom(listeners, name, k) ==
    IF k > Len(listeners) THEN 0
    ELSE IF listeners[k].Name = name THEN k
    ELSE findListenerFrom(listeners, name, k + 1)

FindListener(r, name) == findListenerFrom(r.Listeners, name, 1)

(***************************************************************************)
(* AST nodes.  Late-bound attributes start as nil.                         *)
(***************************************************************************)
NilNode == [kind |-> "nil"]
NilLocal == [m |-> 0, v |-> 0]
NilInstr == [m |-> 0, i |-> 0]

newTrigger(trigger, value, statement) ==
    [kind |-> "Trigger", trigger |-> trigger, value |-> value, statement |-> statement,
     entry |-> 0, method |-> 0]

newProc(name, body, arguments) ==
    [kind |-> "Proc", name |-> name, arguments |-> arguments, body |-> body]

newBlock(statements) == [kind |-> "Block", statements |-> statements]

newAssignment(varType, varName, varValue) ==
    [kind |-> "VarDecl", varType |-> varType, varName |-> varName, varValue |-> varValue,
     variable |-> NilLocal]

newVarAssign(varName, varValue) ==
    [kind |-> "VarAssign", varName |-> varName, varValue |-> varValue]

newMethodExpr(name, parameters) ==
    [kind |-> "MethodExpr", name |-> name, parameters |-> parameters, native |-> 0, local |-> 0]

newLiteral(t, value) == [kind |-> "Literal", literalType |-> t, value |-> value]

newIfStmt(condition, ifTrue, ifFalse) ==
    [kind |-> "If", condition |-> condition, ifTrue |-> ifTrue, ifFalse |-> ifFalse]

newLogicalExpr(left, comparator, right) ==
    [kind |-> "LogicalExpr", left |-> left, comparator |-> comparator, right |-> right]

newIdentifier(identifier) ==
    [kind |-> "IdentifierExpr", identifier |-> identifier, resolved |-> NilLocal]

(***************************************************************************)
(* Instructions and methods.                                               *)
(***************************************************************************)
\* A label's labelFunc is the position, in the same method, of the jump
\* instruction whose operand the callback writes; 0 is a nil callback.
instr(op, i) == [Opcode |-> op, cpoolIndex |-> i, address |-> 0, labelFunc |-> 0]

newLabel == [Opcode |-> op_label, cpoolIndex |-> 0, address |-> 0, labelFunc |-> 0]

emit(method, instruction) ==
    [method EXCEPT !.instructions = Append(@, instruction)]

emitOp(method, op) == emit(method, instr(op, 0))

RECURSIVE resolveMethodFrom(_, _, _)
resolveMethodFrom(methods, name, k) ==
    IF k > Len(methods) THEN 0
    ELSE IF methods[k].name = name THEN k
    ELSE resolveMethodFrom(methods, name, k + 1)

resolveMethod(p, name) == resolveMethodFrom(p.methods, name, 1)

\* A variant of defineMethod that does not advance the method counter.
defineMethodSameIndex(p, name) ==
    [p EXCEPT !.methods = Append(@, [name |-> name, index |-> p.methodIndex,
                                     instructions |-> <<newLabel>>, variables |-> <<>>,
                                     arguments |-> <<>>, entry |-> 1,
                                     lvtIndex |-> 0, labelPtr |-> 1])]

defineMethod(p, name) ==
    [p EXCEPT !.methodIndex = @ + 1,
              !.methods = Append(@, [name |-> name, index |-> p.methodIndex,
                                     instructions |-> <<newLabel>>, variables |-> <<>>,
                                     arguments |-> <<>>, entry |-> 1,
                                     lvtIndex |-> 0, labelPtr |-> 1])]

RECURSIVE resolveVariableFrom(_, _, _)
resolveVariableFrom(variables, name, k) ==
    IF k > Len(variables) THEN 0
    ELSE IF variables[k].name = name THEN k
    ELSE resolveVariableFrom(variables, name, k + 1)

resolveVariable(method, name) == resolveVariableFrom(method.variables, name, 1)

defineVariable(method, name, t) ==
    [method EXCEPT !.lvtIndex = @ + 1,
                   !.variables = Append(@, [index |-> method.lvtIndex, name |-> name, typ |-> t])]

Fail(p, msg) == [p EXCEPT !.err = msg]

(***************************************************************************)
(* Static type inference.                                                  *)
(***************************************************************************)
TypeOfNode(method, node) ==
    CASE node.kind = "Literal" ->
            (CASE node.literalType = "LiteralInteger" -> [err |-> "", typ |-> VarTypeInt]
               [] node.literalType = "LiteralLong" -> [err |-> "", typ |-> VarTypeLong]
               [] node.literalType = "LiteralString" -> [err |-> "", typ |-> VarTypeString]
               [] node.literalType = "LiteralBoolean" -> [err |-> "", typ |-> VarTypeBool]
               [] OTHER -> [err |-> "cannot resolve type from LiteralExpr", typ |-> VarTypeUnresolved])
      [] node.kind = "MethodExpr" ->
            IF node.local # 0
            THEN [err |-> "local method return types not supported", typ |-> VarTypeUnresolved]
            ELSE IF node.native # 0
                 THEN [err |-> "", typ |-> runtime.Functions[node.native].ReturnType]
                 ELSE [err |-> "no resolved local/native func", typ |-> VarTypeUnresolved]
      [] node.kind = "IdentifierExpr" ->
            LET resolved == resolveVariable(method, node.identifier)
            IN IF resolved = 0
               THEN [err |-> "cannot resolve variable", typ |-> VarTypeUnresolved]
               ELSE [err |-> "", typ |-> method.variables[resolved].typ]
      [] OTHER -> [err |-> "cannot resolve type of node", typ |-> VarTypeUnresolved]

\* The argument-type list of a call: TypeOfNode of each parameter in order,
\* stopping at the first panic.
RECURSIVE typesOfFrom(_, _, _, _)
typesOfFrom(method, parameters, i, acc) ==
    IF i > Len(parameters) THEN [err |-> "", types |-> acc]
    ELSE LET t == TypeOfNode(method, parameters[i])
         IN IF t.err # "" THEN [err |-> t.err, types |-> acc]
            ELSE typesOfFrom(method, parameters, i + 1, Append(acc, t.typ))

(***************************************************************************)
(* strconv helpers for the trigger filter value, a sequence of characters. *)
(***************************************************************************)
Digits == <<"0", "1", "2", "3", "4", "5", "6", "7", "8", "9">>

IsDigit(c) == \E d \in 1..10 : Digits[d] = c

DigitVal(c) == (CHOOSE d \in 1..10 : Digits[d] = c) - 1

\* The decimal digits of 2^64 - 1, the largest value ParseUint accepts.
MaxUint64Digits ==
    <<"1", "8", "4", "4", "6", "7", "4", "4", "0", "7", "3", "7", "0", "9", "5", "5", "1",
      "6", "1", "5">>

RECURSIVE stripZeros(_)
stripZeros(chars) ==
    IF Len(chars) > 1 /\ chars[1] = "0" THEN stripZeros(Tail(chars)) ELSE chars

RECURSIVE digitsGreater(_, _, _)
digitsGreater(a, b, i) ==
    IF i > Len(a) THEN FALSE
    ELSE IF DigitVal(a[i]) # DigitVal(b[i]) THEN DigitVal(a[i]) > DigitVal(b[i])
    ELSE digitsGreater(a, b, i + 1)

\* ParseUint(s, 10, 64) fails on an empty text, a non-digit or a value
\* above 2^64 - 1.
parseUintFails(chars) ==
    \/ chars = <<>>
    \/ \E i \in 1..Len(chars) : ~IsDigit(chars[i])
    \/ LET d == stripZeros(chars)
       IN \/ Len(d) > Len(MaxUint64Digits)
          \/ Len(d) = Len(MaxUint64Digits) /\ digitsGreater(d, MaxUint64Digits, 1)

RECURSIVE parseDigits(_, _, _)
parseDigits(chars, i, acc) ==
    IF i > Len(chars) THEN acc
    ELSE parseDigits(chars, i + 1, acc * 10 + DigitVal(chars[i]))

\* The words of the number denoted by digits, modulo 2^64.
RECURSIVE wordsOfDigits(_, _, _)
wordsOfDigits(digits, i, acc) ==
    IF i > Len(digits) THEN acc
    ELSE LET l0 == acc[4] * 10 + DigitVal(digits[i])
             l1 == acc[3] * 10 + l0 \div Word
             l2 == acc[2] * 10 + l1 \div Word
             l3 == acc[1] * 10 + l2 \div Word
         IN wordsOfDigits(digits, i + 1, <<l3 % Word, l2 % Word, l1 % Word, l0 % Word>>)

RECURSIVE joinChars(_, _)
joinChars(chars, i) ==
    IF i > Len(chars) THEN "" ELSE chars[i] \o joinChars(chars, i + 1)

(***************************************************************************)
(* Analyzer.  Each analyze operator returns the program state after the    *)
(* call and the node with its late-bound attributes filled in.             *)
(***************************************************************************)
RECURSIVE defineProcArgs(_, _, _, _)
defineProcArgs(p, mi, arguments, i) ==
    IF i > Len(arguments) THEN p
    ELSE LET vt == ResolveVarType(arguments[i].argtype)
         IN IF vt = VarTypeUnresolved THEN Fail(p, "unresolved variable type")
            ELSE LET m1 == defineVariable(p.methods[mi], arguments[i].name, vt)
                     m2 == [m1 EXCEPT !.arguments = Append(@, Len(m1.variables))]
                 IN defineProcArgs([p EXCEPT !.methods[mi] = m2], mi, arguments, i + 1)

defineProc(p, n) ==
    IF resolveMethod(p, n.name) # 0 THEN Fail(p, "redefining method: " \o n.name)
    ELSE LET p1 == defineMethod(p, n.name)
         IN defineProcArgs(p1, Len(p1.methods), n.arguments, 1)

RECURSIVE analyzeNode(_, _, _)
RECURSIVE analyzeList(_, _, _, _)
RECURSIVE analyzeListRev(_, _, _, _)

\* Analyze ns[i], ns[i+1], ... in order.
analyzeList(p, ns, m, i) ==
    IF i > Len(ns) \/ p.err # "" THEN [p |-> p, ns |-> ns]
    ELSE LET r == analyzeNode(p, ns[i], m)
         IN analyzeList(r.p, [ns EXCEPT ![i] = r.n], m, i + 1)

\* Analyze ns[i], ns[i-1], ... in order.
analyzeListRev(p, ns, m, i) ==
    IF i < 1 \/ p.err # "" THEN [p |-> p, ns |-> ns]
    ELSE LET r == analyzeNode(p, ns[i], m)
         IN analyzeListRev(r.p, [ns EXCEPT ![i] = r.n], m, i - 1)

analyzeTrigger(p, n) ==
    LET listener == FindListener(runtime, n.trigger)
    IN IF listener = 0 THEN [p |-> Fail(p, "unknown trigger"), n |-> n]
       ELSE IF parseUintFails(n.value)
            THEN [p |-> Fail(p, "cannot parse trigger value into long"),
                  n |-> [n EXCEPT !.entry = Len(p.triggers) + 1]]
            ELSE LET parsed == wordsOfDigits(n.value, 1, <<0, 0, 0, 0>>)
                     p1 == defineMethod(p, "@" \o n.trigger \o "@" \o joinChars(n.value, 1)
                                           \o "@" \o ToString(p.triggerIndex))
                     mi == Len(p1.methods)
                     trigger == [name |-> n.trigger, definition |-> listener, label |-> NilInstr,
                                 values |-> <<LongW(parsed)>>]
                     p2 == [p1 EXCEPT !.triggerIndex = @ + 1,
                                      !.triggers = Append(@, trigger)]
                     r == analyzeNode(p2, n.statement, mi)
                 IN [p |-> r.p,
                     n |-> [n EXCEPT !.entry = Len(p2.triggers), !.method = mi,
                                     !.statement = r.n]]

analyzeProc(p, n) ==
    LET m == resolveMethod(p, n.name)
        r == analyzeNode(p, n.body, m)
    IN [p |-> r.p, n |-> [n EXCEPT !.body = r.n]]

analyzeBlock(p, n, m) ==
    LET r == analyzeList(p, n.statements, m, 1)
    IN [p |-> r.p, n |-> [n EXCEPT !.statements = r.ns]]

analyzeIfStatement(p, n, m) ==
    LET c == analyzeNode(p, n.condition, m)
        t == analyzeNode(c.p, n.ifTrue, m)
        f == IF n.ifFalse.kind # "nil" THEN analyzeNode(t.p, n.ifFalse, m)
             ELSE [p |-> t.p, n |-> n.ifFalse]
    IN [p |-> f.p, n |-> [n EXCEPT !.condition = c.n, !.ifTrue = t.n, !.ifFalse = f.n]]

\* A variant of analyzeVarDecl that does not compare the types.
analyzeVarDeclUnchecked(p, n, m) ==
    LET vartype == ResolveVarType(n.varType)
    IN IF vartype = VarTypeUnresolved THEN [p |-> Fail(p, "unresolved variable type"), n |-> n]
       ELSE IF resolveVariable(p.methods[m], n.varName) # 0
            THEN [p |-> Fail(p, "variable redeclared"), n |-> n]
            ELSE LET m1 == defineVariable(p.methods[m], n.varName, vartype)
                     p1 == [p EXCEPT !.methods[m] = m1]
                     n1 == [n EXCEPT !.variable = [m |-> m, v |-> Len(m1.variables)]]
                 IN IF n.varValue.kind = "nil" THEN [p |-> p1, n |-> n1]
                    ELSE LET r == analyzeNode(p1, n.varValue, m)
                             n2 == [n1 EXCEPT !.varValue = r.n]
                             exprType == TypeOfNode(r.p.methods[m], r.n)
                         IN IF r.p.err # "" THEN [p |-> r.p, n |-> n2]
                            ELSE IF exprType.err # "" THEN [p |-> Fail(r.p, exprType.err), n |-> n2]
                            ELSE IF FALSE
                                 THEN [p |-> Fail(r.p, "cannot assign value of type '"
                                                       \o TypeString(exprType.typ) \o "' to '"
                                                       \o n.varType \o " " \o n.varName \o "'"),
                                       n |-> n2]
                                 ELSE [p |-> r.p, n |-> n2]

analyzeVarDecl(p, n, m) ==
    LET vartype == ResolveVarType(n.varType)
    IN IF vartype = VarTypeUnresolved THEN [p |-> Fail(p, "unresolved variable type"), n |-> n]
       ELSE IF resolveVariable(p.methods[m], n.varName) # 0
            THEN [p |-> Fail(p, "variable redeclared"), n |-> n]
            ELSE LET m1 == defineVariable(p.methods[m], n.varName, vartype)
                     p1 == [p EXCEPT !.methods[m] = m1]
                     n1 == [n EXCEPT !.variable = [m |-> m, v |-> Len(m1.variables)]]
                 IN IF n.varValue.kind = "nil" THEN [p |-> p1, n |-> n1]
                    ELSE LET r == analyzeNode(p1, n.varValue, m)
                             n2 == [n1 EXCEPT !.varValue = r.n]
                             exprType == TypeOfNode(r.p.methods[m], r.n)
                         IN IF r.p.err # "" THEN [p |-> r.p, n |-> n2]
                            ELSE IF exprType.err # "" THEN [p |-> Fail(r.p, exprType.err), n |-> n2]
                            ELSE IF exprType.typ # vartype
                                 THEN [p |-> Fail(r.p, "cannot assign value of type '"
                                                       \o TypeString(exprType.typ) \o "' to '"
                                                       \o n.varType \o " " \o n.varName \o "'"),
                                       n |-> n2]
                                 ELSE [p |-> r.p, n |-> n2]

\* A variant of analyzeMethodExpr that binds the native by name alone.
analyzeMethodExprByName(p, n, m) ==
    LET tys == typesOfFrom(p.methods[m], n.parameters, 1, <<>>)
    IN IF tys.err # "" THEN [p |-> Fail(p, tys.err), n |-> n]
       ELSE LET nativeMethod == FindFunctionWithArgumentsByName(runtime, n.name, tys.types)
                localMethod == IF nativeMethod = 0 THEN resolveMethod(p, n.name) ELSE 0
            IN IF nativeMethod = 0 /\ localMethod = 0
               THEN [p |-> Fail(p, "Cannot resolve local or native method"), n |-> n]
               ELSE LET r == analyzeListRev(p, n.parameters, m, Len(n.parameters))
                        n1 == [n EXCEPT !.parameters = r.ns]
                    IN IF r.p.err # "" THEN [p |-> r.p, n |-> n1]
                       ELSE [p |-> r.p, n |-> [n1 EXCEPT !.native = nativeMethod,
                                                         !.local = localMethod]]

analyzeMethodExpr(p, n, m) ==
    LET tys == typesOfFrom(p.methods[m], n.parameters, 1, <<>>)
    IN IF tys.err # "" THEN [p |-> Fail(p, tys.err), n |-> n]
       ELSE LET nativeMethod == FindFunctionWithArguments(runtime, n.name, tys.types)
                localMethod == IF nativeMethod = 0 THEN resolveMethod(p, n.name) ELSE 0
            IN IF nativeMethod = 0 /\ localMethod = 0
               THEN [p |-> Fail(p, "Cannot resolve local or native method"), n |-> n]
               ELSE LET r == analyzeListRev(p, n.parameters, m, Len(n.parameters))
                        n1 == [n EXCEPT !.parameters = r.ns]
                    IN IF r.p.err # "" THEN [p |-> r.p, n |-> n1]
                       ELSE [p |-> r.p, n |-> [n1 EXCEPT !.native = nativeMethod,
                                                         !.local = localMethod]]

analyzeLogicalExpr(p, n, m) ==
    LET l == analyzeNode(p, n.left, m)
        r == analyzeNode(l.p, n.right, m)
    IN [p |-> r.p, n |-> [n EXCEPT !.left = l.n, !.right = r.n]]

\* A variant of analyzeIdentifierExpr that looks in the first method.
analyzeIdentifierExprFirstMethod(p, n, m) ==
    LET resolved == resolveVariable(p.methods[1], n.identifier)
    IN IF resolved = 0 THEN [p |-> Fail(p, "undefined variable"), n |-> n]
       ELSE [p |-> p, n |-> [n EXCEPT !.resolved = [m |-> 1, v |-> resolved]]]

analyzeIdentifierExpr(p, n, m) ==
    LET resolved == resolveVariable(p.methods[m], n.identifier)
    IN IF resolved = 0 THEN [p |-> Fail(p, "undefined variable"), n |-> n]
       ELSE [p |-> p, n |-> [n EXCEPT !.resolved = [m |-> m, v |-> resolved]]]

analyzeLiteralExpr(p, n, m) ==
    IF n.literalType \in {"LiteralString", "LiteralInteger", "LiteralLong", "LiteralBoolean"}
    THEN [p |-> p, n |-> n]
    ELSE [p |-> Fail(p, "unknown literal type"), n |-> n]

analyzeNode(p, node, m) ==
    IF p.err # "" THEN [p |-> p, n |-> node]
    ELSE CASE node.kind = "Trigger" -> analyzeTrigger(p, node)
           [] node.kind = "Proc" -> analyzeProc(p, node)
           [] node.kind = "Block" -> analyzeBlock(p, node, m)
           [] node.kind = "VarDecl" -> analyzeVarDecl(p, node, m)
           [] node.kind = "MethodExpr" -> analyzeMethodExpr(p, node, m)
           [] node.kind = "Literal" -> analyzeLiteralExpr(p, node, m)
           [] node.kind = "If" -> analyzeIfStatement(p, node, m)
           [] node.kind = "LogicalExpr" -> analyzeLogicalExpr(p, node, m)
           [] node.kind = "IdentifierExpr" -> analyzeIdentifierExpr(p, node, m)
           [] OTHER -> [p |-> Fail(p, "No function to walk node"), n |-> node]

RECURSIVE hoistProcs(_, _, _)
hoistProcs(p, rootNodes, i) ==
    IF i > Len(rootNodes) \/ p.err # "" THEN p
    ELSE IF rootNodes[i].kind = "Proc"
         THEN hoistProcs(defineProc(p, rootNodes[i]), rootNodes, i + 1)
         ELSE hoistProcs(p, rootNodes, i + 1)

EmptyProgram ==
    [methods |-> <<>>, triggers |-> <<>>, methodIndex |-> 0, triggerIndex |-> 0, err |-> ""]

\* A variant of ProcessAndAnalyzeProgram that defines each procedure when it
\* comes to it, right before analyzing its body.
RECURSIVE analyzeDefining(_, _, _)
analyzeDefining(p, ns, i) ==
    IF i > Len(ns) \/ p.err # "" THEN [p |-> p, ns |-> ns]
    ELSE LET p1 == IF ns[i].kind = "Proc" THEN defineProc(p, ns[i]) ELSE p
             r == IF p1.err # "" THEN [p |-> p1, n |-> ns[i]] ELSE analyzeNode(p1, ns[i], 0)
         IN analyzeDefining(r.p, [ns EXCEPT ![i] = r.n], i + 1)

ProcessAndAnalyzeProgramInOrder(rootNodes) == analyzeDefining(EmptyProgram, rootNodes, 1)

\* The analyzed program and the annotated root nodes.
ProcessAndAnalyzeProgram(rootNodes) ==
    LET hoisted == hoistProcs(EmptyProgram, rootNodes, 1)
        r == analyzeList(hoisted, rootNodes, 0, 1)
    IN [p |-> r.p, ns |-> r.ns]

(***************************************************************************)
(* Assembler.  The assembler state a holds the methods being filled with   *)
(* instructions, the constant pool and the panic message, if any.          *)
(***************************************************************************)
RECURSIVE assembleNode(_, _, _)
RECURSIVE assembleList(_, _, _, _)
RECURSIVE assembleListRev(_, _, _, _)

assembleList(a, ns, m, i) ==
    IF i > Len(ns) \/ a.err # "" THEN a
    ELSE assembleList(assembleNode(a, ns[i], m), ns, m, i + 1)

assembleListRev(a, ns, m, i) ==
    IF i < 1 \/ a.err # "" THEN a
    ELSE assembleListRev(assembleNode(a, ns[i], m), ns, m, i - 1)

emitTo(a, m, instruction) ==
    IF a.err # "" THEN a ELSE [a EXCEPT !.methods[m] = emit(@, instruction)]

\* A variant of assembleTrigger that drops the return before the body.
assembleTriggerReturnFirst(a, n) ==
    assembleNode(emitTo(a, n.method, instr(op_return, 0)), n.statement, n.method)

assembleTrigger(a, n) ==
    emitTo(assembleNode(a, n.statement, n.method), n.method, instr(op_return, 0))

\* A variant of the prologue that stores into the last parameter first.
RECURSIVE emitPrologueLastFirst(_, _, _)
emitPrologueLastFirst(a, m, i) ==
    IF i > Len(a.methods[m].arguments) THEN a
    ELSE LET v == a.methods[m].variables[
                      a.methods[m].arguments[Len(a.methods[m].arguments) - i + 1]]
         IN emitPrologueLastFirst(emitTo(a, m, instr(op_setlocal, v.index)), m, i + 1)

RECURSIVE emitPrologue(_, _, _)
emitPrologue(a, m, i) ==
    IF i > Len(a.methods[m].arguments) THEN a
    ELSE LET v == a.methods[m].variables[a.methods[m].arguments[i]]
         IN emitPrologue(emitTo(a, m, instr(op_setlocal, v.index)), m, i + 1)

assembleFunc(a, n) ==
    LET m == resolveMethod(a, n.name)
        a1 == emitPrologue(a, m, 1)
        a2 == assembleNode(a1, n.body, m)
    IN emitTo(a2, m, instr(op_return, 0))

assembleBlock(a, n, m) == assembleList(a, n.statements, m, 1)

\* A variant of assembleIfStmt that places its two labels the other way round.
assembleIfStmtSwapped(a, n, m) ==
    LET a1 == assembleNode(a, n.condition, m)
    IN IF a1.err # "" THEN a1
       ELSE LET a2 == [a1 EXCEPT !.methods[m].labelPtr = @ + 2]
                a3 == emitTo(a2, m, instr(op_jz, 0))
                jzToLblfalse == Len(a3.methods[m].instructions)
                lblFalse == [newLabel EXCEPT !.labelFunc = jzToLblfalse]
                a4 == assembleNode(a3, n.ifTrue, m)
            IN IF a4.err # "" THEN a4
               ELSE LET a5 == emitTo(a4, m, instr(op_jmp, 0))
                        jmpToLblend == Len(a5.methods[m].instructions)
                        lblEnd == [newLabel EXCEPT !.labelFunc = jmpToLblend]
                        a6 == emitTo(a5, m, lblEnd)
                        a7 == IF n.ifFalse.kind # "nil" THEN assembleNode(a6, n.ifFalse, m)
                              ELSE a6
                    IN emitTo(a7, m, lblFalse)

assembleIfStmt(a, n, m) ==
    LET a1 == assembleNode(a, n.condition, m)
    IN IF a1.err # "" THEN a1
       ELSE LET a2 == [a1 EXCEPT !.methods[m].labelPtr = @ + 2]
                a3 == emitTo(a2, m, instr(op_jz, 0))
                jzToLblfalse == Len(a3.methods[m].instructions)
                lblFalse == [newLabel EXCEPT !.labelFunc = jzToLblfalse]
                a4 == assembleNode(a3, n.ifTrue, m)
            IN IF a4.err # "" THEN a4
               ELSE LET a5 == emitTo(a4, m, instr(op_jmp, 0))
                        jmpToLblend == Len(a5.methods[m].instructions)
                        lblEnd == [newLabel EXCEPT !.labelFunc = jmpToLblend]
                        a6 == emitTo(a5, m, lblFalse)
                        a7 == IF n.ifFalse.kind # "nil" THEN assembleNode(a6, n.ifFalse, m)
                              ELSE a6
                    IN emitTo(a7, m, lblEnd)

assembleVarDecl(a, n, m) ==
    IF n.varValue.kind # "nil"
    THEN LET a1 == assembleNode(a, n.varValue, m)
         IN emitTo(a1, m, instr(op_setlocal,
                                a.methods[n.variable.m].variables[n.variable.v].index))
    ELSE a

assembleVarAssign(a, n, m) ==
    LET local == resolveVariable(a.methods[m], n.varName)
    IN IF local = 0 THEN Fail(a, "undeclared variable")
       ELSE LET a1 == assembleNode(a, n.varValue, m)
                exprType == TypeOfNode(a1.methods[m], n.varValue)
            IN IF a1.err # "" THEN a1
               ELSE IF exprType.err # "" THEN Fail(a1, exprType.err)
               ELSE IF exprType.typ # a1.methods[m].variables[local].typ
                    THEN Fail(a1, "assigning wrong type")
                    ELSE emitTo(a1, m, instr(op_setlocal, a1.methods[m].variables[local].index))

\* A variant of assembleMethodExpr that assembles the arguments first to last.
assembleMethodExprForward(a, n, m) ==
    LET a1 == assembleList(a, n.parameters, m, 1)
    IN IF n.native # 0
       THEN emitTo(a1, m, instr(op_nativecall, runtime.Functions[n.native].InternalId))
       ELSE emitTo(a1, m, instr(op_call, a1.methods[n.local].index))

assembleMethodExpr(a, n, m) ==
    LET a1 == assembleListRev(a, n.parameters, m, Len(n.parameters))
    IN IF n.native # 0
       THEN emitTo(a1, m, instr(op_nativecall, runtime.Functions[n.native].InternalId))
       ELSE emitTo(a1, m, instr(op_call, a1.methods[n.local].index))

assembleLogicalExpr(a, n, m) ==
    LET a1 == assembleNode(a, n.left, m)
        a2 == assembleNode(a1, n.right, m)
    IN IF a2.err # "" THEN a2
       ELSE CASE n.comparator = "tokenEqual" -> emitTo(a2, m, instr(op_eq, 0))
              [] n.comparator = "tokenPlus" -> emitTo(a2, m, instr(op_add, 0))
              [] n.comparator = "tokenMinus" -> emitTo(a2, m, instr(op_sub, 0))
              [] n.comparator = "tokenMultiply" -> emitTo(a2, m, instr(op_mul, 0))
              [] n.comparator = "tokenDivide" -> emitTo(a2, m, instr(op_div, 0))
              [] n.comparator = "tokenModulo" -> emitTo(a2, m, instr(op_mod, 0))
              [] OTHER -> Fail(a2, "unknown comparator node!")

assembleIdentifierExpr(a, n, m) ==
    emitTo(a, m, instr(op_getlocal, a.methods[n.resolved.m].variables[n.resolved.v].index))

intern(a, m, r) ==
    emitTo([a EXCEPT !.cpool = r.values], m, instr(op_pushconst, r.index))

assembleLiteralExpr(a, n, m) ==
    CASE n.literalType = "LiteralString" -> intern(a, m, getString(a.cpool, n.value.s))
      [] n.literalType = "LiteralInteger" -> intern(a, m, getInt(a.cpool, n.value.i))
      [] n.literalType = "LiteralLong" -> intern(a, m, getLong(a.cpool, n.value.w))
      [] n.literalType = "LiteralBoolean" ->
            IF n.value = StrV(StringBytes("true")) THEN intern(a, m, getInt(a.cpool, 1))
            ELSE intern(a, m, getInt(a.cpool, 0))
      [] OTHER -> Fail(a, "unknown literal type")

assembleNode(a, node, m) ==
    IF a.err # "" THEN a
    ELSE CASE node.kind = "Trigger" -> assembleTrigger(a, node)
           [] node.kind = "Proc" -> assembleFunc(a, node)
           [] node.kind = "Block" -> assembleBlock(a, node, m)
           [] node.kind = "VarDecl" -> assembleVarDecl(a, node, m)
           [] node.kind = "VarAssign" -> assembleVarAssign(a, node, m)
           [] node.kind = "MethodExpr" -> assembleMethodExpr(a, node, m)
           [] node.kind = "Literal" -> assembleLiteralExpr(a, node, m)
           [] node.kind = "If" -> assembleIfStmt(a, node, m)
           [] node.kind = "LogicalExpr" -> assembleLogicalExpr(a, node, m)
           [] node.kind = "IdentifierExpr" -> assembleIdentifierExpr(a, node, m)
           [] OTHER -> Fail(a, "No function to walk node")

(***************************************************************************)
(* Layout pass: one address counter across all methods; a label takes the  *)
(* current address, runs its callback and does not advance the counter.    *)
(***************************************************************************)
\* A variant of the layout loop in which a label advances the counter.
RECURSIVE layoutInstructionsCountingLabels(_, _, _)
layoutInstructionsCountingLabels(instructions, i, address) ==
    IF i > Len(instructions) THEN [instructions |-> instructions, address |-> address]
    ELSE LET ins1 == [instructions EXCEPT ![i].address = address]
             ins2 == IF instructions[i].labelFunc # 0
                     THEN [ins1 EXCEPT ![instructions[i].labelFunc].cpoolIndex = address]
                     ELSE ins1
         IN layoutInstructionsCountingLabels(ins2, i + 1, address + 1)

RECURSIVE layoutInstructions(_, _, _)
layoutInstructions(instructions, i, address) ==
    IF i > Len(instructions) THEN [instructions |-> instructions, address |-> address]
    ELSE LET ins1 == [instructions EXCEPT ![i].address = address]
             ins2 == IF instructions[i].labelFunc # 0
                     THEN [ins1 EXCEPT ![instructions[i].labelFunc].cpoolIndex = address]
                     ELSE ins1
         IN layoutInstructions(ins2, i + 1,
                               IF instructions[i].Opcode # op_label THEN address + 1
                               ELSE address)

\* A variant of the layout pass in which every method starts at address 0.
RECURSIVE layoutMethodsFromZero(_, _, _)
layoutMethodsFromZero(methods, mi, address) ==
    IF mi > Len(methods) THEN methods
    ELSE LET r == layoutInstructions(methods[mi].instructions, 1, 0)
         IN layoutMethodsFromZero([methods EXCEPT ![mi].instructions = r.instructions],
                                  mi + 1, r.address)

RECURSIVE layoutMethods(_, _, _)
layoutMethods(methods, mi, address) ==
    IF mi > Len(methods) THEN methods
    ELSE LET r == layoutInstructions(methods[mi].instructions, 1, address)
         IN layoutMethods([methods EXCEPT ![mi].instructions = r.instructions],
                          mi + 1, r.address)

\* The assembler state after assembling every root node and laying out.
AssembleProgram(p, rootNodes) ==
    LET a0 == [methods |-> p.methods, cpool |-> <<>>, err |-> ""]
        a1 == assembleList(a0, rootNodes, 0, 1)
    IN IF a1.err # "" THEN a1
       ELSE [a1 EXCEPT !.methods = layoutMethods(a1.methods, 1, 0)]

(***************************************************************************)
(* Binary encoder.                                                         *)
(***************************************************************************)
\* The big-endian bytes of a 64-bit integer given by its words.
RECURSIVE WordBytes(_, _)
WordBytes(w, k) ==
    IF k > Len(w) THEN <<>> ELSE <<w[k] \div 256, w[k] % 256>> \o WordBytes(w, k + 1)

\* The w big-endian bytes of the two's complement of n truncated to w bytes
\* (floor division by 256 is the arithmetic shift).
RECURSIVE BigEndian(_, _)
BigEndian(n, w) ==
    IF w = 0 THEN <<>> ELSE Append(BigEndian(n \div 256, w - 1), n % 256)

RECURSIVE encodeTriggers(_, _, _)
encodeTriggers(p, i, out) ==
    IF i > Len(p.triggers) \/ out.err # "" THEN out
    ELSE LET trigger == p.triggers[i]
         IN IF trigger.label = NilInstr
            THEN [out EXCEPT !.err = "nil pointer dereference"]
            ELSE encodeTriggers(p, i + 1,
                    [out EXCEPT !.bytes = @ \o BigEndian(runtime.Listeners[trigger.definition].InternalId, 4)
                                         \o BigEndian(p.methods[trigger.label.m].instructions[trigger.label.i].address, 4)
                                         \o BigEndian(Len(trigger.values), 1)
                                         \o WordBytes(trigger.values[1].w, 1)])

RECURSIVE countNonLabels(_, _)
countNonLabels(instructions, i) ==
    IF i > Len(instructions) THEN 0
    ELSE (IF instructions[i].Opcode # op_label THEN 1 ELSE 0)
         + countNonLabels(instructions, i + 1)

RECURSIVE encodeMethods(_, _, _)
encodeMethods(methods, i, out) ==
    IF i > Len(methods) THEN out
    ELSE encodeMethods(methods, i + 1,
            [bytes |-> out.bytes \o BigEndian(methods[i].index, 2)
                       \o BigEndian(methods[i].instructions[methods[i].entry].address, 4),
             numInstructions |-> out.numInstructions
                                 + countNonLabels(methods[i].instructions, 1)])

RECURSIVE encodePool(_, _, _)
encodePool(values, i, out) ==
    IF i > Len(values) \/ out.err # "" THEN out
    ELSE LET v == values[i]
         IN CASE v.Type = VarTypeInt ->
                   encodePool(values, i + 1,
                              [out EXCEPT !.bytes = @ \o <<0>> \o BigEndian(v.Value.i, 4)])
              [] v.Type = VarTypeLong ->
                   encodePool(values, i + 1,
                              [out EXCEPT !.bytes = @ \o <<1>> \o WordBytes(v.Value.w, 1)])
              [] v.Type = VarTypeString ->
                   encodePool(values, i + 1,
                              [out EXCEPT !.bytes = @ \o <<2>>
                                   \o BigEndian(Len(v.Value.s), 2)
                                   \o v.Value.s])
              [] OTHER -> [out EXCEPT !.err = "cannot encode type"]

encodeInstruction(inst) ==
    BigEndian(inst.Opcode, 1)
    \o (IF inst.Opcode = op_pushconst \/ inst.Opcode = op_nativecall
        THEN BigEndian(inst.cpoolIndex, 2)
        ELSE IF inst.Opcode = op_call THEN BigEndian(inst.cpoolIndex, 4)
        ELSE <<>>)

\* The instruction records of one method, one byte sequence per record.
RECURSIVE encodeInstructionsWithLabels(_, _)
encodeInstructionsWithLabels(instructions, i) ==
    IF i > Len(instructions) THEN <<>>
    ELSE <<encodeInstruction(instructions[i])>>
         \o encodeInstructionsWithLabels(instructions, i + 1)

RECURSIVE encodeInstructions(_, _)
encodeInstructions(instructions, i) ==
    IF i > Len(instructions) THEN <<>>
    ELSE (IF instructions[i].Opcode # op_label
          THEN <<encodeInstruction(instructions[i])>> ELSE <<>>)
         \o encodeInstructions(instructions, i + 1)

RECURSIVE encodeCode(_, _)
encodeCode(methods, i) ==
    IF i > Len(methods) THEN <<>>
    ELSE encodeInstructions(methods[i].instructions, 1) \o encodeCode(methods, i + 1)

RECURSIVE flatten(_, _)
flatten(records, i) ==
    IF i > Len(records) THEN <<>> ELSE records[i] \o flatten(records, i + 1)

\* The encoded file: header, trigger table, method table, constant pool,
\* instruction_count and the instruction records; bytes is the whole output.
Encode(p, pool) ==
    LET head == <<AbiVersion>> \o BigEndian(Len(p.triggers), 2)
        trig == encodeTriggers(p, 1, [bytes |-> <<>>, err |-> ""])
        meth == encodeMethods(p.methods, 1,
                              [bytes |-> BigEndian(Len(p.methods), 2), numInstructions |-> 0])
        cp == encodePool(pool, 1, [bytes |-> BigEndian(Len(pool), 2), err |-> ""])
        count == BigEndian(meth.numInstructions, 4)
        records == encodeCode(p.methods, 1)
    IN IF trig.err # "" THEN [err |-> trig.err, bytes |-> <<>>, instructionCount |-> <<>>,
                              records |-> <<>>]
       ELSE IF cp.err # "" THEN [err |-> cp.err, bytes |-> <<>>, instructionCount |-> <<>>,
                                 records |-> <<>>]
       ELSE [err |-> "",
             bytes |-> head \o trig.bytes \o meth.bytes \o cp.bytes \o count
                       \o flatten(records, 1),
             instructionCount |-> count,
             records |-> records]

(***************************************************************************)
(* Runtime manifests of the model.                                         *)
(***************************************************************************)
param(t, name) == [Type |-> t, Name |-> name]

function(ret, name, params, id) ==
    [ReturnType |-> ret, Name |-> name, Parameters |-> params, InternalId |-> id]

listener(name, params, id) == [Name |-> name, Parameters |-> params, InternalId |-> id]

FooInt == function(VarTypeVoid, "foo", <<param(VarTypeInt, "a")>>, 10)
FooIntString ==
    function(VarTypeVoid, "foo", <<param(VarTypeInt, "a"), param(VarTypeString, "b")>>, 11)
FooLong == function(VarTypeVoid, "foo", <<param(VarTypeLong, "a")>>, 12)
FooIntAgain == function(VarTypeInt, "foo", <<param(VarTypeInt, "n")>>, 13)
LogString == function(VarTypeVoid, "log", <<param(VarTypeString, "s")>>, 3)
FooStringInt ==
    function(VarTypeVoid, "foo", <<param(VarTypeString, "a"), param(VarTypeInt, "b")>>, 14)

QNoArgs == function(VarTypeVoid, "q", <<>>, 5)
LenString == function(VarTypeInt, "len", <<param(VarTypeString, "s")>>, 6)

PipelineRuntime ==
    [Functions |-> <<FooInt, FooIntString, LogString, QNoArgs, LenString>>,
     Listeners |-> <<listener("jump", <<param(VarTypeInt, "a")>>, 7)>>]

\* A variant of ValidateRuntime that leaves the listeners unchecked.
ValidateRuntimeFunctionsOnly(rt) ==
    \A i \in 1..Len(rt.Functions) :
        /\ rt.Functions[i].InternalId >= 0
        /\ \A j \in 1..(i - 1) : rt.Functions[j].InternalId # rt.Functions[i].InternalId

\* ValidateRuntime: internal ids are non-negative and unique among the
\* functions and among the listeners.
ValidateRuntime(rt) ==
    /\ \A i \in 1..Len(rt.Functions) :
          /\ rt.Functions[i].InternalId >= 0
          /\ \A j \in 1..(i - 1) : rt.Functions[j].InternalId # rt.Functions[i].InternalId
    /\ \A i \in 1..Len(rt.Listeners) :
          /\ rt.Listeners[i].InternalId >= 0
          /\ \A j \in 1..(i - 1) : rt.Listeners[j].InternalId # rt.Listeners[i].InternalId

(***************************************************************************)
(* Source programs of the model, as the parser builds them.                *)
(***************************************************************************)
SeqsUpTo(S, n) == UNION {[1..k -> S] : k \in 0..n}

Int1 == newLiteral("LiteralInteger", IntV(1))
Int2 == newLiteral("LiteralInteger", IntV(2))
StrX == newLiteral("LiteralString", StrV(StringBytes("x")))
arg(argtype, name) == [name |-> name, argtype |-> argtype]
LogX == newMethodExpr("log", <<StrX>>)
FortyTwo == <<"4", "2">>

\* proc p() { int x = 1; x = x + 2; }
ProgramE2 ==
    <<newProc("p", newBlock(<<newAssignment("int", "x", Int1),
                              newVarAssign("x", newLogicalExpr(newIdentifier("x"),
                                                               "tokenPlus", Int2))>>), <<>>)>>

\* proc p() { if (1 == 1) { log("yes"); } else { log("no"); } }
ProgramE3 ==
    <<newProc("p", newBlock(<<newIfStmt(
            newLogicalExpr(Int1, "tokenEqual", Int1),
            newBlock(<<newMethodExpr("log", <<newLiteral("LiteralString",
                                                         StrV(StringBytes("yes")))>>)>>),
            newBlock(<<newMethodExpr("log", <<newLiteral("LiteralString",
                                                         StrV(StringBytes("no")))>>)>>))>>),
            <<>>)>>

\* proc q() { foo(1, "x"); }
ProgramE4 == <<newProc("q", newBlock(<<newMethodExpr("foo", <<Int1, StrX>>)>>), <<>>)>>

\* Call-centred programs: one procedure p whose body is an optional
\* declaration followed by one statement, next to an optional second
\* top-level declaration.
Atoms == {Int1, StrX, newIdentifier("a")}

Calls == {newMethodExpr(name, args) : name \in {"foo", "log", "q", "nosuch"},
                                      args \in SeqsUpTo(Atoms, MaxArgs)}

FirstStmts ==
    {newAssignment("int", "x", Int1), newAssignment("string", "x", StrX),
     newAssignment("int", "x", newIdentifier("a")), newAssignment("int", "a", NilNode),
     newAssignment("int", "x", NilNode), newAssignment("long", "x", Int1),
     newAssignment("int", "x", StrX)}

SecondStmts ==
    Calls \cup
    {newVarAssign("x", newLogicalExpr(newIdentifier("x"), "tokenPlus", Int2)),
     newVarAssign("x", Int1),
     newAssignment("int", "y", newIdentifier("x")),
     newAssignment("int", "y", newIdentifier("y")),
     newMethodExpr("log", <<newMethodExpr("log", <<StrX>>)>>),
     newMethodExpr("foo", <<newMethodExpr("len", <<StrX>>)>>),
     newMethodExpr("foo", <<newIdentifier("x")>>),
     newIfStmt(newIdentifier("x"), newBlock(<<newMethodExpr("q", <<>>)>>), NilNode)}

Bodies ==
    {newBlock(<<s>>) : s \in SecondStmts}
    \cup {newBlock(<<f>>) : f \in FirstStmts}
    \cup {newBlock(<<f, s>>) : f \in FirstStmts, s \in SecondStmts}

ProcsP ==
    {newProc("p", body, args) :
        body \in Bodies,
        args \in {<<>>, <<arg("int", "a")>>, <<arg("int", "a"), arg("string", "x")>>}}

OtherDecls ==
    {newProc("q", newBlock(<<>>), <<>>),
     newProc("q", newBlock(<<newMethodExpr("log", <<newIdentifier("b")>>)>>),
             <<arg("int", "a"), arg("string", "b")>>),
     newTrigger("jump", FortyTwo, newBlock(<<LogX>>)),
     newTrigger("jump", FortyTwo, newBlock(<<newMethodExpr("p", <<>>)>>))}

CallPrograms ==
    {ProgramE2, ProgramE3, ProgramE4}
    \cup {<<p>> : p \in ProcsP}
    \cup {<<p, o>> : p \in ProcsP, o \in OtherDecls}
    \cup {<<o, p>> : p \in ProcsP, o \in OtherDecls}

\* If-centred programs: if statements nested up to MaxNest deep, in a
\* procedure or a trigger, before, after or alone among other code.
Bodies0 == {newBlock(<<>>), newBlock(<<LogX>>)}
Else0 == {NilNode} \cup Bodies0

RECURSIVE IfStmts(_)
IfStmts(d) ==
    IF d = 0 THEN {}
    ELSE LET N == IfStmts(d - 1)
             N1 == IfStmts(1)
         IN {newIfStmt(Int1, t, e) : t \in Bodies0, e \in Else0}
            \cup {newIfStmt(Int1, newBlock(<<n>>), e) : n \in N, e \in Else0}
            \cup {newIfStmt(Int1, t, n) : t \in Bodies0, n \in N}
            \cup (IF d >= 2 THEN {newIfStmt(Int1, newBlock(<<n1>>), n2) : n1 \in N1, n2 \in N1}
                  ELSE {})

IfBodies ==
    {newBlock(pre \o <<i>> \o post) :
        pre \in {<<>>, <<newAssignment("int", "x", Int1)>>},
        i \in IfStmts(MaxNest),
        post \in {<<>>, <<LogX>>}}

IfMethods ==
    {newProc("p", b, <<>>) : b \in IfBodies}
    \cup {newProc("p", b, <<arg("int", "a")>>) : b \in IfBodies}
    \cup {newTrigger("jump", FortyTwo, b) : b \in IfBodies}

ProcQ == newProc("q", newBlock(<<LogX>>), <<>>)

IfPrograms ==
    {ProgramE3}
    \cup {<<m>> : m \in IfMethods}
    \cup {<<ProcQ, m>> : m \in IfMethods}
    \cup {<<m, ProcQ>> : m \in IfMethods}

(***************************************************************************)
(* The compilation pipeline as a state machine.                            *)
(***************************************************************************)
NoBinary == [err |-> "", bytes |-> <<>>, instructionCount |-> <<>>, records |-> <<>>]
NoCall == [name |-> "", types |-> <<>>, result |-> -1]
\* The token channel and the loop of ScanText before ScanText is called.
NoChannel == [buf |-> <<>>, closed |-> FALSE]
NoCollector == [tokens |-> <<>>, v |-> <<>>, state |-> "idle"]
\* The scanner before any text is given to it.
NoScan ==
    [data |-> <<>>, pos |-> 0, mark |-> 0, tokens |-> <<>>, state |-> "nil", err |-> "",
     printed |-> <<>>, unknown |-> FALSE, diverged |-> FALSE]

InitWith(programs) ==
    /\ pc = "parsed"
    /\ runtime = PipelineRuntime
    /\ nodes \in programs
    /\ program = EmptyProgram
    /\ cpool = <<>>
    /\ binary = NoBinary
    /\ err = ""
    /\ call = NoCall
    /\ hist = <<>>
    /\ scan = NoScan
    /\ channel = NoChannel
    /\ collector = NoCollector

Init == InitWith(CallPrograms)

InitIf == InitWith(IfPrograms)

Analyze ==
    /\ pc = "parsed"
    /\ LET r == ProcessAndAnalyzeProgram(nodes)
       IN /\ program' = r.p
          /\ nodes' = r.ns
          /\ err' = r.p.err
          /\ pc' = IF r.p.err # "" THEN "error" ELSE "analyzed"
    /\ UNCHANGED <<runtime, cpool, binary, call, hist, scan, channel, collector>>

Assemble ==
    /\ pc = "analyzed"
    /\ LET a == AssembleProgram(program, nodes)
       IN /\ program' = [program EXCEPT !.methods = a.methods]
          /\ cpool' = a.cpool
          /\ err' = a.err
          /\ pc' = IF a.err # "" THEN "error" ELSE "assembled"
    /\ UNCHANGED <<runtime, nodes, binary, call, hist, scan, channel, collector>>

EncodeProgram ==
    /\ pc = "assembled"
    /\ LET b == Encode(program, cpool)
       IN /\ binary' = b
          /\ err' = b.err
          /\ pc' = IF b.err # "" THEN "error" ELSE "encoded"
    /\ UNCHANGED <<runtime, nodes, program, cpool, call, hist, scan, channel, collector>>

Next == Analyze \/ Assemble \/ EncodeProgram

Spec == Init /\ [][Next]_vars

SpecIf == InitIf /\ [][Next]_vars

\* Declaration-centred programs: up to MaxDecls top-level declarations, with
\* repeated procedure names, repeated triggers, empty bodies and the largest
\* trigger value.
DeclPool ==
    {newProc("p", newBlock(<<>>), <<>>),
     newProc("p", newBlock(<<LogX>>), <<arg("int", "a")>>),
     newProc("q", newBlock(<<newIfStmt(Int1, newBlock(<<LogX>>), NilNode)>>), <<>>),
     newTrigger("jump", FortyTwo, newBlock(<<>>)),
     newTrigger("jump", MaxUint64Digits, newBlock(<<LogX>>))}

DeclPrograms == UNION {[1..k -> DeclPool] : k \in 1..MaxDecls}

InitDecl == InitWith(DeclPrograms)

SpecDecl == InitDecl /\ [][Next]_vars

(***************************************************************************)
(* Views of the assembled program used by the properties.                  *)
(***************************************************************************)
IsLabel(inst) == inst.Opcode = op_label

NonLabels(instructions) == SelectSeq(instructions, LAMBDA inst : ~IsLabel(inst))

\* The flat code image: the non-label instructions of all methods, in
\* method order and then instruction order.
RECURSIVE imageFrom(_, _)
imageFrom(methods, mi) ==
    IF mi > Len(methods) THEN <<>>
    ELSE NonLabels(methods[mi].instructions) \o imageFrom(methods, mi + 1)

Image == imageFrom(program.methods, 1)

\* Opcode and operand of each instruction of a sequence.
OpsOf(instructions) ==
    [i \in 1..Len(instructions) |-> <<instructions[i].Opcode, instructions[i].cpoolIndex>>]

Assembled == pc \in {"assembled", "encoded"}

(***************************************************************************)
(* The constant pool on its own: any sequence of up to MaxCalls get calls. *)
(* hist records, per call, the key asked for, the index returned and the   *)
(* pool length before and after.                                           *)
(***************************************************************************)
PoolStrings == {"x", "y"}

InitPool ==
    /\ pc = "pool"
    /\ runtime = PipelineRuntime
    /\ nodes = <<>>
    /\ program = EmptyProgram
    /\ cpool = <<>>
    /\ binary = NoBinary
    /\ err = ""
    /\ call = NoCall
    /\ hist = <<>>
    /\ scan = NoScan
    /\ channel = NoChannel
    /\ collector = NoCollector

Record(t, v, r) ==
    /\ cpool' = r.values
    /\ hist' = Append(hist, [Type |-> t, Value |-> v, index |-> r.index,
                             before |-> Len(cpool), after |-> Len(r.values)])
    /\ UNCHANGED <<pc, runtime, nodes, program, binary, err, call, scan, channel, collector>>

GetInt ==
    /\ pc = "pool" /\ Len(hist) < MaxCalls
    /\ \E i \in 0..MaxVal : Record(VarTypeInt, IntV(i), getInt(cpool, i))

GetLong ==
    /\ pc = "pool" /\ Len(hist) < MaxCalls
    /\ \E i \in 0..MaxVal : Record(VarTypeLong, LongV(i), getLong(cpool, int64Of(i)))

GetString ==
    /\ pc = "pool" /\ Len(hist) < MaxCalls
    /\ \E s \in PoolStrings : Record(VarTypeString, StrV(StringBytes(s)), getString(cpool, StringBytes(s)))

NextPool == GetInt \/ GetLong \/ GetString

SpecPool == InitPool /\ [][NextPool]_vars

(***************************************************************************)
(* Native overload resolution on its own: a validated manifest of up to    *)
(* MaxFuncs functions and a query of up to MaxArgs argument types.         *)
(***************************************************************************)
FunctionPool == {FooInt, FooIntString, FooLong, FooIntAgain, LogString, FooStringInt}

Manifests ==
    {rt \in {[Functions |-> fs, Listeners |-> <<>>] : fs \in SeqsUpTo(FunctionPool, MaxFuncs)} :
        ValidateRuntime(rt)}

Queries ==
    {[name |-> name, types |-> types, result |-> -1] :
        name \in {"foo", "log"},
        types \in SeqsUpTo({VarTypeInt, VarTypeLong, VarTypeString}, MaxArgs)}

InitFind ==
    /\ pc = "find"
    /\ runtime \in Manifests
    /\ call \in Queries
    /\ nodes = <<>>
    /\ program = EmptyProgram
    /\ cpool = <<>>
    /\ binary = NoBinary
    /\ err = ""
    /\ hist = <<>>
    /\ scan = NoScan
    /\ channel = NoChannel
    /\ collector = NoCollector

Find ==
    /\ pc = "find"
    /\ call' = [call EXCEPT !.result = FindFunctionWithArguments(runtime, call.name, call.types)]
    /\ pc' = "found"
    /\ UNCHANGED <<runtime, nodes, program, cpool, binary, err, hist, scan, channel, collector>>

NextFind == Find

SpecFind == InitFind /\ [][NextFind]_vars

(***************************************************************************)
(* Properties of the constant pool.                                        *)
(***************************************************************************)
SameKey(e1, e2) == e1.Type = e2.Type /\ e1.Value = e2.Value

\* C1: the pool never holds two entries with the same (type, value); a call
\* for a key interned before returns the index of the first call for it and
\* does not grow the pool; the index returned always designates the key's
\* entry; equal numbers of different types are distinct entries.
C1_InterningIsIdempotent ==
    /\ \A i, j \in 1..Len(cpool) : i # j => ~SameKey(cpool[i], cpool[j])
    /\ \A j \in 1..Len(hist) :
          /\ hist[j].index + 1 \in 1..Len(cpool)
          /\ SameKey(cpool[hist[j].index + 1], hist[j])
          /\ \A i \in 1..(j - 1) :
                SameKey(hist[i], hist[j])
                => hist[j].index = hist[i].index /\ hist[j].after = hist[j].before
    /\ \A i, j \in 1..Len(hist) :
          (hist[i].Type = VarTypeInt /\ hist[j].Type = VarTypeLong
           /\ int64Of(hist[i].Value.i) = hist[j].Value.w)
          => hist[i].index # hist[j].index

\* A key asked for twice with another key in between, and the same number
\* interned as an Int32 and as an Int64.
C1_Witness ==
    /\ pc = "pool"
    /\ \E i, j \in 1..Len(hist) :
          i + 1 < j /\ SameKey(hist[i], hist[j]) /\ ~SameKey(hist[i], hist[i + 1])
    /\ \E i, j \in 1..Len(hist) :
          hist[i].Type = VarTypeInt /\ hist[j].Type = VarTypeLong
          /\ int64Of(hist[i].Value.i) = hist[j].Value.w

(***************************************************************************)
(* Properties of native overload resolution.                               *)
(***************************************************************************)
ExactMatch(f, name, types) ==
    /\ f.Name = name
    /\ Len(f.Parameters) = Len(types)
    /\ \A i \in 1..Len(types) : f.Parameters[i].Type = types[i]

\* C7: FindFunctionWithArguments returns the first function, in manifest
\* order, of that name, arity and parameter types, and nil when there is
\* none; a function differing in one type or in arity is never returned.
C7_FirstExactMatchWins ==
    pc = "found" =>
        LET S == {k \in 1..Len(runtime.Functions) :
                     ExactMatch(runtime.Functions[k], call.name, call.types)}
        IN IF S = {} THEN call.result = 0
           ELSE call.result \in S /\ \A k \in S : call.result <= k

\* The second function is returned after a first one of the same name and
\* arity was skipped for one argument type.
C7_Witness ==
    /\ pc = "found"
    /\ call.result = 2
    /\ runtime.Functions[1].Name = call.name
    /\ Len(runtime.Functions[1].Parameters) = Len(call.types)
    /\ \E i \in 1..Len(call.types) : runtime.Functions[1].Parameters[i].Type # call.types[i]

(***************************************************************************)
(* Where each AST node's code lies in the flat code image, computed from   *)
(* the number of instructions each construct lowers to.                    *)
(***************************************************************************)
RECURSIVE Size(_)
RECURSIVE sizeOfList(_, _)
sizeOfList(ns, i) == IF i > Len(ns) THEN 0 ELSE Size(ns[i]) + sizeOfList(ns, i + 1)

\* The number of non-label instructions a node lowers to.
Size(node) ==
    CASE node.kind = "Literal" -> 1
      [] node.kind = "IdentifierExpr" -> 1
      [] node.kind = "MethodExpr" -> sizeOfList(node.parameters, 1) + 1
      [] node.kind = "LogicalExpr" -> Size(node.left) + Size(node.right) + 1
      [] node.kind = "VarDecl" ->
            IF node.varValue.kind = "nil" THEN 0 ELSE Size(node.varValue) + 1
      [] node.kind = "VarAssign" -> Size(node.varValue) + 1
      [] node.kind = "If" -> Size(node.condition) + 1 + Size(node.ifTrue) + 1 + Size(node.ifFalse)
      [] node.kind = "Block" -> sizeOfList(node.statements, 1)
      [] OTHER -> 0

\* Every node of a subtree with the address its code starts at and the
\* method it belongs to, given the address at which the subtree's code starts.
RECURSIVE Sites(_, _, _)
RECURSIVE sitesOfList(_, _, _, _)
RECURSIVE sitesOfArgs(_, _, _, _)

sitesOfList(ns, i, at, mi) ==
    IF i > Len(ns) THEN <<>>
    ELSE Sites(ns[i], at, mi) \o sitesOfList(ns, i + 1, at + Size(ns[i]), mi)

\* Arguments lie last argument first.
sitesOfArgs(ns, i, at, mi) ==
    IF i < 1 THEN <<>>
    ELSE Sites(ns[i], at, mi) \o sitesOfArgs(ns, i - 1, at + Size(ns[i]), mi)

Sites(node, at, mi) ==
    <<[n |-> node, at |-> at, m |-> mi]>>
    \o CASE node.kind = "MethodExpr" -> sitesOfArgs(node.parameters, Len(node.parameters), at, mi)
         [] node.kind = "LogicalExpr" ->
               Sites(node.left, at, mi) \o Sites(node.right, at + Size(node.left), mi)
         [] node.kind = "VarDecl" ->
               IF node.varValue.kind = "nil" THEN <<>> ELSE Sites(node.varValue, at, mi)
         [] node.kind = "VarAssign" -> Sites(node.varValue, at, mi)
         [] node.kind = "If" ->
               Sites(node.condition, at, mi)
               \o Sites(node.ifTrue, at + Size(node.condition) + 1, mi)
               \o (IF node.ifFalse.kind = "nil" THEN <<>>
                   ELSE Sites(node.ifFalse,
                              at + Size(node.condition) + 1 + Size(node.ifTrue) + 1, mi))
         [] node.kind = "Block" -> sitesOfList(node.statements, 1, at, mi)
         [] OTHER -> <<>>

\* The method a top-level declaration is compiled into.
MethodOf(root) ==
    IF root.kind = "Proc" THEN resolveMethod(program, root.name) ELSE root.method

\* The number of instructions of the methods before method mi.
RECURSIVE BaseOf(_)
BaseOf(mi) ==
    IF mi <= 1 THEN 0
    ELSE BaseOf(mi - 1) + Len(NonLabels(program.methods[mi - 1].instructions))

\* The sites of the body of a top-level declaration of the analyzed program.
RootSites(root) ==
    LET mi == MethodOf(root)
    IN IF root.kind = "Proc"
       THEN Sites(root.body, BaseOf(mi) + Len(program.methods[mi].arguments), mi)
       ELSE Sites(root.statement, BaseOf(mi), mi)

RECURSIVE allSitesFrom(_)
allSitesFrom(k) ==
    IF k > Len(nodes) THEN <<>> ELSE RootSites(nodes[k]) \o allSitesFrom(k + 1)

AllSites == allSitesFrom(1)

SitesOfKind(kind) == SelectSeq(AllSites, LAMBDA s : s.n.kind = kind)

\* The instruction at an address of the code image.
At(address) == Image[address + 1]

Accepted == pc \in {"analyzed", "assembled", "encoded"}

(***************************************************************************)
(* Properties of label layout.                                             *)
(***************************************************************************)
\* The number of non-label instructions of method mi before position i.
NonLabelsBefore(mi, i) ==
    Len(NonLabels(SubSeq(program.methods[mi].instructions, 1, i - 1)))

\* The address, in the code image, of the first non-label instruction at or
\* after position i of method mi in program order.
FollowingAddress(mi, i) == BaseOf(mi) + NonLabelsBefore(mi, i)

\* The positions of the labels of method mi that patch position j.
LabelsOf(mi, j) ==
    {k \in 1..Len(program.methods[mi].instructions) :
        /\ IsLabel(program.methods[mi].instructions[k])
        /\ program.methods[mi].instructions[k].labelFunc = j}

IsJump(inst) == inst.Opcode \in {op_jz, op_jmp}

\* C2: after layout, every JZ and JMP of every method has exactly one
\* target label, that label lies after the jump, a non-label instruction
\* follows it in program order, and the jump's operand is the address of
\* the first such instruction (which carries that address).
C2_JumpOperandIsAddressAfterLabel ==
    Assembled =>
        \A mi \in 1..Len(program.methods) :
            \A j \in 1..Len(program.methods[mi].instructions) :
                LET inst == program.methods[mi].instructions[j]
                IN IsJump(inst) =>
                    /\ Cardinality(LabelsOf(mi, j)) = 1
                    /\ \A k \in LabelsOf(mi, j) :
                          /\ k > j
                          /\ FollowingAddress(mi, k) < Len(Image)
                          /\ inst.cpoolIndex = FollowingAddress(mi, k)
                          /\ At(inst.cpoolIndex).address = inst.cpoolIndex

\* Nested ifs in the second method of a program, with two labels in a row.
C2_Witness ==
    /\ Assembled
    /\ \E mi \in 2..Len(program.methods) :
          LET ins == program.methods[mi].instructions
          IN /\ Cardinality({j \in 1..Len(ins) : ins[j].Opcode = op_jz}) >= 2
             /\ \E k \in 2..(Len(ins) - 1) :
                   /\ IsLabel(ins[k]) /\ IsLabel(ins[k + 1])
                   /\ ins[k].labelFunc # 0 /\ ins[k + 1].labelFunc # 0

(***************************************************************************)
(* Properties of calls.                                                    *)
(***************************************************************************)
\* The address of the first non-label instruction of method mi.
EntryAddress(mi) == BaseOf(mi)

\* The address of the call instruction of a method call site.
CallAddress(site) == site.at + sizeOfList(site.n.parameters, 1)

LocalCallSites == SelectSeq(SitesOfKind("MethodExpr"), LAMBDA s : s.n.local # 0)

\* C3: after layout, the operand of the CALL of every call bound to a
\* method of the program is the address of the first non-label instruction
\* of that method.
C3_CallOperandIsCalleeEntryAddress ==
    Assembled =>
        \A k \in 1..Len(LocalCallSites) :
            LET site == LocalCallSites[k]
            IN /\ At(CallAddress(site)).Opcode = op_call
               /\ At(CallAddress(site)).cpoolIndex = EntryAddress(site.n.local)

\* What the code emits instead: the callee's index in the method table.
C3_CallOperandIsMethodIndex ==
    Assembled =>
        \A k \in 1..Len(LocalCallSites) :
            LET site == LocalCallSites[k]
            IN /\ At(CallAddress(site)).Opcode = op_call
               /\ At(CallAddress(site)).cpoolIndex = program.methods[site.n.local].index

\* A call of the second method of a program has been assembled.
C3_Witness ==
    /\ Assembled
    /\ \E k \in 1..Len(LocalCallSites) :
          /\ LocalCallSites[k].n.local = 2
          /\ EntryAddress(2) # program.methods[2].index

(***************************************************************************)
(* Properties of the encoded file.                                         *)
(***************************************************************************)
\* The unsigned number a big-endian byte sequence holds.
RECURSIVE FromBigEndian(_)
FromBigEndian(bytes) ==
    IF bytes = <<>> THEN 0
    ELSE 256 * FromBigEndian(SubSeq(bytes, 1, Len(bytes) - 1)) + bytes[Len(bytes)]

\* The bytes of the file from the instruction_count field on.
CodeSection == binary.instructionCount \o flatten(binary.records, 1)

\* C4: in every file Encode writes, the 4-byte instruction_count holds the
\* number of non-label instructions of all methods, exactly that many
\* instruction records follow it to the end of the file, the k-th record
\* starts with the opcode of the k-th non-label instruction, and no record
\* starts with the LABEL opcode.
C4_InstructionCountIsNonLabelCount ==
    pc = "encoded" =>
        /\ Len(binary.instructionCount) = 4
        /\ FromBigEndian(binary.instructionCount) = Len(Image)
        /\ Len(binary.records) = Len(Image)
        /\ \A k \in 1..Len(binary.records) :
              /\ binary.records[k][1] = Image[k].Opcode
              /\ binary.records[k][1] # op_label
        /\ Len(binary.bytes) >= Len(CodeSection)
        /\ SubSeq(binary.bytes, Len(binary.bytes) - Len(CodeSection) + 1, Len(binary.bytes))
              = CodeSection

\* A program of two methods, one of them with the labels of an if statement,
\* has been encoded.
C4_Witness ==
    /\ pc = "encoded"
    /\ Len(program.methods) = 2
    /\ \E mi \in 1..2 :
          Cardinality({k \in 1..Len(program.methods[mi].instructions) :
                          IsLabel(program.methods[mi].instructions[k])}) >= 3
    /\ FromBigEndian(binary.instructionCount) >= 5

(***************************************************************************)
(* Properties of name resolution.                                          *)
(***************************************************************************)
\* The body of a top-level declaration.
BodyOf(root) == IF root.kind = "Proc" THEN root.body ELSE root.statement

\* The parameter names of a top-level declaration.
ParamNames(root) ==
    IF root.kind = "Proc" THEN {root.arguments[k].name : k \in 1..Len(root.arguments)} ELSE {}

\* The nodes of one kind in the body of a top-level declaration.
NodesOfKind(root, kind) ==
    LET sites == Sites(BodyOf(root), 0, 0)
    IN {sites[k].n : k \in {j \in 1..Len(sites) : sites[j].n.kind = kind}}

\* The names the parameters and VarDecls of a top-level declaration introduce.
DeclaredNames(root) ==
    ParamNames(root) \cup {d.varName : d \in NodesOfKind(root, "VarDecl")}

\* Some identifier names no parameter and no VarDecl of its declaration.
HasUndefinedIdentifier ==
    \E k \in 1..Len(nodes) :
        \E n \in NodesOfKind(nodes[k], "IdentifierExpr") :
            n.identifier \notin DeclaredNames(nodes[k])

\* The first declaration is a procedure whose first statement initialises a
\* variable from an identifier that names neither a parameter nor the
\* variable itself.
StartsWithUndefinedIdentifier ==
    /\ Len(nodes) >= 1 /\ nodes[1].kind = "Proc"
    /\ Len(nodes[1].body.statements) >= 1
    /\ LET d == nodes[1].body.statements[1]
       IN /\ d.kind = "VarDecl"
          /\ d.varValue.kind = "IdentifierExpr"
          /\ d.varValue.identifier \notin ParamNames(nodes[1]) \cup {d.varName}

\* The top-level declaration compiled into method mi.
RootOfMethod(mi) == CHOOSE root \in {nodes[k] : k \in 1..Len(nodes)} : MethodOf(root) = mi

\* C5: in every accepted program each identifier's handle is set, designates
\* a local of the method containing the identifier, that local has the
\* identifier's name and was introduced by a parameter or by a VarDecl of
\* that method; a program with an identifier that names no parameter and no
\* VarDecl of its method is rejected, with "undefined variable" when that
\* identifier is the first thing analysed.
C5_IdentifierResolvesToLocalOfItsMethod ==
    /\ Accepted =>
          \A k \in 1..Len(SitesOfKind("IdentifierExpr")) :
              LET site == SitesOfKind("IdentifierExpr")[k]
                  h == site.n.resolved
                  method == program.methods[site.m]
              IN /\ h # NilLocal
                 /\ h.m = site.m
                 /\ h.v \in 1..Len(method.variables)
                 /\ method.variables[h.v].name = site.n.identifier
                 /\ \/ /\ \E a \in 1..Len(method.arguments) : method.arguments[a] = h.v
                       /\ site.n.identifier \in ParamNames(RootOfMethod(site.m))
                    \/ \E d \in NodesOfKind(RootOfMethod(site.m), "VarDecl") :
                          d.variable = h /\ d.varName = site.n.identifier
    /\ (pc \in {"analyzed", "assembled", "encoded", "error"} /\ HasUndefinedIdentifier)
          => (pc = "error" /\ err # "")
    /\ (pc = "error" /\ StartsWithUndefinedIdentifier) => err = "undefined variable"

\* An accepted program whose second method reads a parameter and whose
\* first method reads a declared variable.
C5_Witness ==
    /\ pc = "analyzed"
    /\ \E k1, k2 \in 1..Len(SitesOfKind("IdentifierExpr")) :
          LET s1 == SitesOfKind("IdentifierExpr")[k1]
              s2 == SitesOfKind("IdentifierExpr")[k2]
          IN /\ s1.m = 1 /\ s2.m = 2
             /\ \E d \in NodesOfKind(RootOfMethod(1), "VarDecl") : d.variable = s1.n.resolved
             /\ program.methods[2].variables[s2.n.resolved.v].index = 1
             /\ s2.n.identifier \in ParamNames(RootOfMethod(2))

(***************************************************************************)
(* Properties of call binding.                                             *)
(***************************************************************************)
\* The type a declaration gives a name: that of the parameter, else that of
\* the VarDecl, of that name.
DeclaredType(root, name) ==
    IF name \in ParamNames(root)
    THEN LET a == CHOOSE k \in 1..Len(root.arguments) : root.arguments[k].name = name
         IN ResolveVarType(root.arguments[a].argtype)
    ELSE IF \E d \in NodesOfKind(root, "VarDecl") : d.varName = name
         THEN LET d == CHOOSE d \in NodesOfKind(root, "VarDecl") : d.varName = name
              IN ResolveVarType(d.varType)
         ELSE VarTypeUnresolved

\* The static type of a call argument, read off the syntax tree.
InferredType(root, node) ==
    CASE node.kind = "Literal" /\ node.literalType = "LiteralInteger" -> VarTypeInt
      [] node.kind = "Literal" /\ node.literalType = "LiteralLong" -> VarTypeLong
      [] node.kind = "Literal" /\ node.literalType = "LiteralString" -> VarTypeString
      [] node.kind = "Literal" /\ node.literalType = "LiteralBoolean" -> VarTypeBool
      [] node.kind = "IdentifierExpr" -> DeclaredType(root, node.identifier)
      [] node.kind = "MethodExpr" /\ node.native # 0 ->
            runtime.Functions[node.native].ReturnType
      [] OTHER -> VarTypeUnresolved

\* C6: in every accepted program each call is bound to exactly one of a
\* native function and a method of the program; a native binding designates
\* a function of the manifest whose name is the call's name, whose
\* parameter count is the call's argument count and whose parameter types
\* are, position by position, the static types of the arguments.
C6_NativeBindingMatchesManifest ==
    Accepted =>
        \A k \in 1..Len(SitesOfKind("MethodExpr")) :
            LET site == SitesOfKind("MethodExpr")[k]
                n == site.n
            IN /\ (n.native # 0) # (n.local # 0)
               /\ n.local # 0 => n.local \in 1..Len(program.methods)
               /\ n.native # 0 =>
                     /\ n.native \in 1..Len(runtime.Functions)
                     /\ \E j \in 1..Len(runtime.Functions) :
                           LET f == runtime.Functions[j]
                           IN /\ f.InternalId = runtime.Functions[n.native].InternalId
                              /\ f.Name = n.name
                              /\ Len(f.Parameters) = Len(n.parameters)
                              /\ \A i \in 1..Len(n.parameters) :
                                    f.Parameters[i].Type
                                       = InferredType(RootOfMethod(site.m), n.parameters[i])

\* An accepted native call of two arguments, one of them a variable, next
\* to a same-named overload of another arity.
C6_Witness ==
    /\ pc = "analyzed"
    /\ \E k \in 1..Len(SitesOfKind("MethodExpr")) :
          LET n == SitesOfKind("MethodExpr")[k].n
          IN /\ n.native # 0
             /\ Len(n.parameters) = 2
             /\ \E i \in 1..2 : n.parameters[i].kind = "IdentifierExpr"
             /\ \E j \in 1..Len(runtime.Functions) :
                   /\ runtime.Functions[j].Name = n.name
                   /\ Len(runtime.Functions[j].Parameters) # 2

(***************************************************************************)
(* Properties of the emitted code.                                         *)
(***************************************************************************)
\* The address at which the code of argument i of a call site starts: after
\* the code of every later argument.
ArgStart(site, i) == site.at + sizeOfList(site.n.parameters, i + 1)

\* The instruction at an address is the push of a literal or the read of a
\* variable.
PushesAtom(node, address) ==
    CASE node.kind = "Literal" /\ node.literalType = "LiteralInteger" ->
            /\ At(address).Opcode = op_pushconst
            /\ cpool[At(address).cpoolIndex + 1] = [Type |-> VarTypeInt, Value |-> node.value]
      [] node.kind = "Literal" /\ node.literalType = "LiteralString" ->
            /\ At(address).Opcode = op_pushconst
            /\ cpool[At(address).cpoolIndex + 1] = [Type |-> VarTypeString, Value |-> node.value]
      [] node.kind = "IdentifierExpr" ->
            /\ At(address).Opcode = op_getlocal
            /\ At(address).cpoolIndex
                  = program.methods[node.resolved.m].variables[node.resolved.v].index
      [] OTHER -> TRUE

\* Each method's code is its prologue, the code of its body and a RETURN.
CodeIsBodyCode ==
    \A k \in 1..Len(nodes) :
        LET mi == MethodOf(nodes[k])
        IN Len(NonLabels(program.methods[mi].instructions))
              = Len(program.methods[mi].arguments) + Size(BodyOf(nodes[k])) + 1

\* The program is proc q() { foo(1, "x"); }.
E4Program ==
    /\ Len(nodes) = 1 /\ nodes[1].kind = "Proc"
    /\ nodes[1].name = "q" /\ nodes[1].arguments = <<>>
    /\ Len(nodes[1].body.statements) = 1
    /\ nodes[1].body.statements[1].kind = "MethodExpr"
    /\ nodes[1].body.statements[1].name = "foo"
    /\ Len(nodes[1].body.statements[1].parameters) = 2
    /\ nodes[1].body.statements[1].parameters[1].kind = "Literal"
    /\ nodes[1].body.statements[1].parameters[1].value = IntV(1)
    /\ nodes[1].body.statements[1].parameters[2].kind = "Literal"
    /\ nodes[1].body.statements[1].parameters[2].value = StrV(StringBytes("x"))

\* C8: in every assembled program the code of a call is the code of its
\* last argument, then of the one before, ..., then of its first argument,
\* followed by one call instruction: NATIVECALL with the InternalId of the
\* native binding, or CALL for a local binding; proc q() { foo(1, "x"); }
\* with foo(int) -> 10 and foo(int, string) -> 11 is PUSHCONST of "x",
\* PUSHCONST of 1, NATIVECALL 11, RETURN.
C8_ArgumentsReversedThenOneCall ==
    Assembled =>
        /\ CodeIsBodyCode
        /\ \A k \in 1..Len(SitesOfKind("MethodExpr")) :
              LET site == SitesOfKind("MethodExpr")[k]
                  n == site.n
                  callInstr == At(ArgStart(site, 0))
              IN /\ \A i \in 1..Len(n.parameters) :
                        /\ ArgStart(site, i) + Size(n.parameters[i]) = ArgStart(site, i - 1)
                        /\ PushesAtom(n.parameters[i], ArgStart(site, i))
                 /\ IF n.native # 0
                    THEN /\ callInstr.Opcode = op_nativecall
                         /\ callInstr.cpoolIndex = runtime.Functions[n.native].InternalId
                    ELSE callInstr.Opcode = op_call
        /\ E4Program =>
              /\ OpsOf(Image) = <<<<op_pushconst, 0>>, <<op_pushconst, 1>>,
                                  <<op_nativecall, 11>>, <<op_return, 0>>>>
              /\ cpool = <<[Type |-> VarTypeString, Value |-> StrV(StringBytes("x"))],
                           [Type |-> VarTypeInt, Value |-> IntV(1)]>>

\* foo(1, "x") of procedure q has been assembled against a manifest with
\* foo(int) -> 10 and foo(int, string) -> 11.
C8_Witness ==
    /\ Assembled
    /\ E4Program
    /\ \E j1, j2 \in 1..Len(runtime.Functions) :
          /\ runtime.Functions[j1].Name = "foo" /\ runtime.Functions[j1].InternalId = 10
          /\ Len(runtime.Functions[j1].Parameters) = 1
          /\ runtime.Functions[j2].Name = "foo" /\ runtime.Functions[j2].InternalId = 11

\* The addresses of the parts of the code of an if statement.
JzAddress(site) == site.at + Size(site.n.condition)
JmpAddress(site) == JzAddress(site) + 1 + Size(site.n.ifTrue)
ElseStart(site) == JmpAddress(site) + 1
IfEnd(site) == ElseStart(site) + Size(site.n.ifFalse)

\* C9: in every assembled program the code of an if statement is the code
\* of its condition, a JZ, the code of its then branch, a JMP and the code
\* of its else branch; the JZ operand is the address of the first
\* instruction of the else branch, the JMP operand is the address of the
\* instruction following the else branch, which exists; with an absent or
\* empty else branch both operands are the address following the JMP.
C9_IfLowersToCondJzThenJmpElse ==
    Assembled =>
        /\ CodeIsBodyCode
        /\ \A k \in 1..Len(SitesOfKind("If")) :
              LET site == SitesOfKind("If")[k]
                  jz == At(JzAddress(site))
                  jmp == At(JmpAddress(site))
              IN /\ PushesAtom(site.n.condition, site.at)
                 /\ jz.Opcode = op_jz
                 /\ jz.address = JzAddress(site)
                 /\ jz.cpoolIndex = ElseStart(site)
                 /\ jmp.Opcode = op_jmp
                 /\ jmp.address = JmpAddress(site)
                 /\ jmp.cpoolIndex = IfEnd(site)
                 /\ IfEnd(site) < Len(Image)
                 /\ At(ElseStart(site)).address = jz.cpoolIndex
                 /\ At(IfEnd(site)).address = jmp.cpoolIndex
                 /\ Size(site.n.ifFalse) = 0 =>
                       /\ jz.cpoolIndex = JmpAddress(site) + 1
                       /\ jmp.cpoolIndex = JmpAddress(site) + 1

\* An assembled program with an if statement nested in another, one with a
\* non-empty else branch, one without else branch and one with an empty
\* else block.
C9_Witness ==
    /\ Assembled
    /\ \E k1, k2 \in 1..Len(SitesOfKind("If")) :
          LET s1 == SitesOfKind("If")[k1]
              s2 == SitesOfKind("If")[k2]
          IN /\ s1.at < s2.at /\ IfEnd(s2) <= IfEnd(s1)
             /\ Size(s1.n.ifFalse) > 0
             /\ Size(s1.n.ifTrue) > 0
             /\ s2.n.ifFalse.kind = "nil"
    /\ \E k \in 1..Len(SitesOfKind("If")) :
          /\ SitesOfKind("If")[k].n.ifFalse.kind = "Block"
          /\ SitesOfKind("If")[k].n.ifFalse.statements = <<>>

(***************************************************************************)
(* Properties of assignment.                                               *)
(***************************************************************************)
\* The program is proc p() { int x = 1; x = x + 2; }.
E2Program ==
    /\ Len(nodes) = 1 /\ nodes[1].kind = "Proc"
    /\ nodes[1].name = "p" /\ nodes[1].arguments = <<>>
    /\ Len(nodes[1].body.statements) = 2
    /\ LET d == nodes[1].body.statements[1]
           s == nodes[1].body.statements[2]
       IN /\ d.kind = "VarDecl" /\ d.varType = "int" /\ d.varName = "x"
          /\ d.varValue.kind = "Literal" /\ d.varValue.value = IntV(1)
          /\ s.kind = "VarAssign" /\ s.varName = "x"
          /\ s.varValue.kind = "LogicalExpr" /\ s.varValue.comparator = "tokenPlus"
          /\ s.varValue.left.kind = "IdentifierExpr" /\ s.varValue.left.identifier = "x"
          /\ s.varValue.right.kind = "Literal" /\ s.varValue.right.value = IntV(2)

\* The statement is an assignment of a binary arithmetic expression whose
\* left operand is the assigned variable itself.
IsArithmeticSelfAssign(s) ==
    /\ s.kind = "VarAssign"
    /\ s.varValue.kind = "LogicalExpr"
    /\ s.varValue.comparator = "tokenPlus"
    /\ s.varValue.left.kind = "IdentifierExpr"
    /\ s.varValue.left.identifier = s.varName

\* The first declaration is a procedure that declares a variable and then
\* assigns it an arithmetic expression over itself, and has no parameters.
DeclaresThenAssigns ==
    /\ Len(nodes) >= 1 /\ nodes[1].kind = "Proc" /\ nodes[1].arguments = <<>>
    /\ Len(nodes[1].body.statements) = 2
    /\ nodes[1].body.statements[1].kind = "VarDecl"
    /\ nodes[1].body.statements[1].varType = "int"
    /\ nodes[1].body.statements[1].varValue.kind = "Literal"
    /\ nodes[1].body.statements[1].varValue.literalType = "LiteralInteger"
    /\ IsArithmeticSelfAssign(nodes[1].body.statements[2])
    /\ nodes[1].body.statements[2].varName = nodes[1].body.statements[1].varName

\* C10: a procedure that declares an int variable and then assigns it an
\* arithmetic expression whose left operand is that variable is not
\* rejected, and once assembled its assignment is the code of the
\* expression followed by SETLOCAL of the variable's slot, with no further
\* local declared; proc p() { int x = 1; x = x + 2; } is PUSHCONST #0,
\* SETLOCAL 0, GETLOCAL 0, PUSHCONST #1, ADD, SETLOCAL 0, RETURN with pool
\* [Int32 1, Int32 2].
C10_AssignmentLowersToSetlocal ==
    /\ DeclaresThenAssigns => pc # "error"
    /\ (DeclaresThenAssigns /\ Assembled) =>
          /\ Len(program.methods[1].variables) = 1
          /\ LET code == NonLabels(program.methods[1].instructions)
             IN /\ Len(code) = 7
                /\ code[5].Opcode = op_add
                /\ code[6].Opcode = op_setlocal
                /\ code[6].cpoolIndex = program.methods[1].variables[1].index
    /\ (E2Program /\ Assembled) =>
          /\ OpsOf(Image) = <<<<op_pushconst, 0>>, <<op_setlocal, 0>>, <<op_getlocal, 0>>,
                              <<op_pushconst, 1>>, <<op_add, 0>>, <<op_setlocal, 0>>,
                              <<op_return, 0>>>>
          /\ cpool = <<[Type |-> VarTypeInt, Value |-> IntV(1)],
                       [Type |-> VarTypeInt, Value |-> IntV(2)]>>

\* What the code does instead: every program with an assignment statement
\* is rejected by the analyzer, which has no case for the node.
C10_AssignmentIsRejected ==
    (pc \in {"analyzed", "assembled", "encoded", "error"}
     /\ \E k \in 1..Len(nodes) : NodesOfKind(nodes[k], "VarAssign") # {})
        => (pc = "error" /\ (E2Program => err = "No function to walk node"))

\* proc p() { int x = 1; x = x + 2; } has been through the analyzer.
C10_Witness == E2Program /\ pc = "error" /\ err = "No function to walk node"

(***************************************************************************)
(* Properties of method shape.                                             *)
(***************************************************************************)
\* The positions of the RETURN instructions of method mi.
ReturnsOf(mi) ==
    {k \in 1..Len(program.methods[mi].instructions) :
        program.methods[mi].instructions[k].Opcode = op_return}

\* C11: in every assembled program each method, of a procedure or of a
\* trigger, holds exactly one RETURN, at the last position of its
\* instruction list, and every method belongs to a declaration; the method
\* of a trigger whose body is an empty block holds RETURN as its only
\* non-label instruction.
C11_MethodsEndWithTheirOnlyReturn ==
    Assembled =>
        /\ \A mi \in 1..Len(program.methods) :
              /\ ReturnsOf(mi) = {Len(program.methods[mi].instructions)}
              /\ \E k \in 1..Len(nodes) : MethodOf(nodes[k]) = mi
        /\ \A k \in 1..Len(nodes) :
              (nodes[k].kind = "Trigger" /\ Size(nodes[k].statement) = 0) =>
                  OpsOf(NonLabels(program.methods[nodes[k].method].instructions))
                     = <<<<op_return, 0>>>>

\* An assembled program with a trigger of empty body, a trigger with code
\* and a procedure whose RETURN follows a label.
C11_Witness ==
    /\ Assembled
    /\ \E k \in 1..Len(nodes) :
          /\ nodes[k].kind = "Trigger" /\ nodes[k].statement.statements = <<>>
          /\ Len(NonLabels(program.methods[nodes[k].method].instructions)) = 1
    /\ \E k \in 1..Len(nodes) :
          /\ nodes[k].kind = "Trigger"
          /\ Len(NonLabels(program.methods[nodes[k].method].instructions)) > 1
    /\ \E mi \in 1..Len(program.methods) :
          LET ins == program.methods[mi].instructions
          IN Len(ins) >= 3 /\ IsLabel(ins[Len(ins) - 1]) /\ ins[Len(ins) - 1].labelFunc # 0

(***************************************************************************)
(* Properties of declaration type checking.                                *)
(***************************************************************************)
\* The first statement of the first declaration, a procedure.
FirstStatement == nodes[1].body.statements[1]

\* The first declaration is a procedure whose first statement declares a
\* variable, not named like a parameter, with a literal or parameter as
\* initializer.
StartsWithInitializedDecl ==
    /\ Len(nodes) >= 1 /\ nodes[1].kind = "Proc"
    /\ Len(nodes[1].body.statements) >= 1
    /\ FirstStatement.kind = "VarDecl"
    /\ ResolveVarType(FirstStatement.varType) # VarTypeUnresolved
    /\ FirstStatement.varName \notin ParamNames(nodes[1])
    /\ \/ FirstStatement.varValue.kind = "Literal"
       \/ /\ FirstStatement.varValue.kind = "IdentifierExpr"
          /\ FirstStatement.varValue.identifier \in ParamNames(nodes[1])

\* The static type of the initializer of the first statement.
FirstInitializerType == InferredType(nodes[1], FirstStatement.varValue)

\* No instruction, constant or byte has been produced.
NoBytecode ==
    /\ cpool = <<>>
    /\ binary = NoBinary
    /\ \A mi \in 1..Len(program.methods) : NonLabels(program.methods[mi].instructions) = <<>>

\* C12: a program whose first declaration starts with a variable
\* declaration whose initializer's static type is not the declared type is
\* rejected by the analyzer with a message giving the initializer's type,
\* the declared type and the variable's name, and nothing is emitted for
\* it; no accepted program holds a declaration whose initializer's type
\* differs from the declared type; a procedure made of one declaration
\* whose initializer has the declared type passes analysis and assembly.
C12_InitializerTypeMustMatch ==
    /\ (pc # "parsed" /\ StartsWithInitializedDecl
        /\ FirstInitializerType # ResolveVarType(FirstStatement.varType)) =>
          /\ pc = "error"
          /\ err = "cannot assign value of type '" \o TypeString(FirstInitializerType)
                      \o "' to '" \o FirstStatement.varType \o " "
                      \o FirstStatement.varName \o "'"
          /\ NoBytecode
    /\ Accepted =>
          \A k \in 1..Len(SitesOfKind("VarDecl")) :
              LET site == SitesOfKind("VarDecl")[k]
              IN site.n.varValue.kind # "nil" =>
                    /\ InferredType(RootOfMethod(site.m), site.n.varValue)
                          = ResolveVarType(site.n.varType)
                    /\ program.methods[site.n.variable.m].variables[site.n.variable.v].typ
                          = ResolveVarType(site.n.varType)
    /\ (StartsWithInitializedDecl /\ Len(nodes) = 1 /\ Len(nodes[1].body.statements) = 1
        /\ FirstInitializerType = ResolveVarType(FirstStatement.varType)) =>
          pc # "error"

\* int x = "x"; as first statement has been rejected.
C12_Witness ==
    /\ pc = "error"
    /\ StartsWithInitializedDecl
    /\ FirstStatement.varValue.kind = "Literal"
    /\ FirstInitializerType = VarTypeString
    /\ FirstStatement.varType = "int"
    /\ err = "cannot assign value of type 'string' to 'int x'"
    /\ NoBytecode

(***************************************************************************)
(* Manifest parsing.  A manifest line is given by the pieces the line      *)
(* pattern splits it into: return type (or "listener"), name, parameter    *)
(* list and uid text; blank is a line that is empty or a comment.          *)
(***************************************************************************)
AnyType == {"void", "int", "string", "bool"}

line(returnType, methodName, parameters, uid) ==
    [blank |-> FALSE, returnType |-> returnType, methodName |-> methodName,
     parameters |-> parameters, uid |-> uid]

CommentLine == [blank |-> TRUE, returnType |-> "", methodName |-> "", parameters |-> <<>>,
                uid |-> <<>>]

\* The decimal digits of 2^63 - 1, the largest value Atoi accepts.
MaxInt64Digits ==
    <<"9", "2", "2", "3", "3", "7", "2", "0", "3", "6", "8", "5", "4", "7", "7", "5", "8",
      "0", "7">>

atoiFails(chars) ==
    LET d == stripZeros(chars)
    IN \/ Len(d) > Len(MaxInt64Digits)
       \/ Len(d) = Len(MaxInt64Digits) /\ digitsGreater(d, MaxInt64Digits, 1)

\* RuntimeLinePattern: a known return type or "listener", and a uid of one
\* or more digits.
matchesLinePattern(l) ==
    /\ l.returnType \in AnyType \cup {"listener"}
    /\ l.uid # <<>>
    /\ \A i \in 1..Len(l.uid) : IsDigit(l.uid[i])

RECURSIVE parseParameters(_, _, _)
parseParameters(parameters, i, result) ==
    IF i > Len(parameters) THEN [err |-> "", result |-> result]
    ELSE IF parameters[i].ptype \notin AnyType
         THEN [err |-> "could not parse parameter", result |-> <<>>]
         ELSE LET resolvedType == ResolveVarType(parameters[i].ptype)
              IN IF resolvedType = VarTypeUnresolved
                 THEN [err |-> "invalid variable type for parameter", result |-> <<>>]
                 ELSE parseParameters(parameters, i + 1,
                                      Append(result, param(resolvedType, parameters[i].pname)))

NoRuntime == [Functions |-> <<>>, Listeners |-> <<>>]

RECURSIVE parseLines(_, _, _)
parseLines(lines, i, rt) ==
    IF i > Len(lines) THEN [err |-> "", runtime |-> rt]
    ELSE IF lines[i].blank THEN parseLines(lines, i + 1, rt)
    ELSE IF ~matchesLinePattern(lines[i])
         THEN [err |-> "invalid runtime definition", runtime |-> NoRuntime]
    ELSE IF atoiFails(lines[i].uid)
         THEN [err |-> "cannot convert uid into number", runtime |-> NoRuntime]
    ELSE LET uidInt == parseDigits(lines[i].uid, 1, 0)
             parsed == parseParameters(lines[i].parameters, 1, <<>>)
         IN IF parsed.err # ""
            THEN [err |-> "error parsing parameters", runtime |-> NoRuntime]
            ELSE IF lines[i].returnType = "listener"
                 THEN parseLines(lines, i + 1,
                         [rt EXCEPT !.Listeners =
                             Append(@, listener(lines[i].methodName, parsed.result, uidInt))])
                 ELSE LET resolvedType == ResolveType(lines[i].returnType)
                      IN IF resolvedType = VarTypeUnresolved
                         THEN [err |-> "invalid return type for method", runtime |-> NoRuntime]
                         ELSE parseLines(lines, i + 1,
                                 [rt EXCEPT !.Functions =
                                     Append(@, function(resolvedType, lines[i].methodName,
                                                        parsed.result, uidInt))])

\* The error ("" for none) and the runtime (NoRuntime on error) returned.
ParseRuntime(lines) ==
    LET r == parseLines(lines, 1, NoRuntime)
    IN IF r.err # "" THEN r
       ELSE IF ~ValidateRuntime(r.runtime)
            THEN [err |-> "cannot validate runtime", runtime |-> NoRuntime]
            ELSE r

pp(ptype, pname) == [ptype |-> ptype, pname |-> pname]

LinePool ==
    {line("void", "foo", <<pp("int", "a")>>, <<"1", "0">>),
     line("void", "foo", <<pp("int", "a"), pp("string", "b")>>, <<"1", "1">>),
     line("void", "log", <<pp("string", "s")>>, <<"1", "0">>),
     line("listener", "jump", <<pp("int", "a")>>, <<"7">>),
     line("listener", "land", <<>>, <<"0", "7">>),
     line("listener", "tick", <<>>, <<"1", "0">>),
     line("long", "bar", <<>>, <<"3">>),
     line("int", "neg", <<>>, <<"-", "1">>),
     line("int", "far", <<pp("long", "a")>>, <<"4">>),
     line("int", "big", <<>>, MaxUint64Digits),
     CommentLine}

\* The manifest text is kept in nodes, the outcome in runtime and err.
InitManifest ==
    /\ pc = "manifest"
    /\ nodes \in UNION {[1..k -> LinePool] : k \in 1..MaxLines}
    /\ runtime = NoRuntime
    /\ program = EmptyProgram
    /\ cpool = <<>>
    /\ binary = NoBinary
    /\ err = ""
    /\ call = NoCall
    /\ hist = <<>>
    /\ scan = NoScan
    /\ channel = NoChannel
    /\ collector = NoCollector

LoadManifest ==
    /\ pc = "manifest"
    /\ LET r == ParseRuntime(nodes)
       IN /\ runtime' = r.runtime
          /\ err' = r.err
          /\ pc' = IF r.err # "" THEN "rejected" ELSE "loaded"
    /\ UNCHANGED <<nodes, program, cpool, binary, call, hist, scan, channel, collector>>

NextManifest == LoadManifest

SpecManifest == InitManifest /\ [][NextManifest]_vars

\* The lines of the manifest that declare functions, and listeners, given
\* that every line parses.
DefinitionLines == SelectSeq(nodes, LAMBDA l : ~l.blank)
FunctionLines == SelectSeq(DefinitionLines, LAMBDA l : l.returnType # "listener")
ListenerLines == SelectSeq(DefinitionLines, LAMBDA l : l.returnType = "listener")

\* The number a uid text of the manifest denotes.
UidOf(l) == parseDigits(stripZeros(l.uid), 1, 0)

\* Two lines of a sequence carry the same uid.
SharesUid(ls) ==
    \E i, j \in 1..Len(ls) :
        /\ i # j
        /\ matchesLinePattern(ls[i]) /\ matchesLinePattern(ls[j])
        /\ stripZeros(ls[i].uid) = stripZeros(ls[j].uid)

\* C13: a manifest in which two functions, or two listeners, carry the same
\* id is rejected with an error and without a runtime; in every accepted
\* manifest the ids are non-negative, pairwise distinct among the functions
\* and pairwise distinct among the listeners, every definition line has
\* become a function or listener with the id of its text, in order; a
\* well-formed manifest whose only shared id is between a function and a
\* listener is accepted.
C13_IdsUniquePerNamespace ==
    /\ (pc \in {"loaded", "rejected"} /\ (SharesUid(FunctionLines) \/ SharesUid(ListenerLines)))
          => (pc = "rejected" /\ err # "" /\ runtime = NoRuntime)
    /\ pc = "rejected" => (err # "" /\ runtime = NoRuntime)
    /\ pc = "loaded" =>
          /\ err = ""
          /\ Len(runtime.Functions) = Len(FunctionLines)
          /\ Len(runtime.Listeners) = Len(ListenerLines)
          /\ \A i \in 1..Len(runtime.Functions) :
                /\ runtime.Functions[i].InternalId >= 0
                /\ runtime.Functions[i].InternalId = UidOf(FunctionLines[i])
                /\ \A j \in 1..Len(runtime.Functions) :
                      i # j => runtime.Functions[i].InternalId # runtime.Functions[j].InternalId
          /\ \A i \in 1..Len(runtime.Listeners) :
                /\ runtime.Listeners[i].InternalId >= 0
                /\ runtime.Listeners[i].InternalId = UidOf(ListenerLines[i])
                /\ \A j \in 1..Len(runtime.Listeners) :
                      i # j => runtime.Listeners[i].InternalId # runtime.Listeners[j].InternalId
    /\ (pc \in {"loaded", "rejected"}
        /\ \A i \in 1..Len(DefinitionLines) :
              /\ matchesLinePattern(DefinitionLines[i])
              /\ ~atoiFails(DefinitionLines[i].uid)
              /\ \A k \in 1..Len(DefinitionLines[i].parameters) :
                    DefinitionLines[i].parameters[k].ptype \in AnyType \ {"void"}
        /\ ~SharesUid(FunctionLines) /\ ~SharesUid(ListenerLines))
          => pc = "loaded"

\* An accepted manifest in which a function and a listener carry id 10.
C13_Witness ==
    /\ pc = "loaded"
    /\ \E i \in 1..Len(runtime.Functions) : \E j \in 1..Len(runtime.Listeners) :
          /\ runtime.Functions[i].InternalId = 10
          /\ runtime.Listeners[j].InternalId = 10
    /\ Len(runtime.Listeners) = 2

(***************************************************************************)
(* Integer literals.  The parser reads the token text with ParseInt, keeps *)
(* the value as an int when it lies in the 32-bit range and as an int64    *)
(* otherwise; the assembler interns it accordingly.                        *)
(***************************************************************************)
\* The two's complement negation of an int64.
negate64(w) ==
    LET n0 == (Word - 1 - w[4]) + 1
        n1 == (Word - 1 - w[3]) + n0 \div Word
        n2 == (Word - 1 - w[2]) + n1 \div Word
        n3 == (Word - 1 - w[1]) + n2 \div Word
    IN <<n3 % Word, n2 % Word, n1 % Word, n0 % Word>>

\* Signed a < b on int64.
RECURSIVE wordsLess(_, _, _)
wordsLess(a, b, k) ==
    IF k > Len(a) THEN FALSE
    ELSE IF a[k] # b[k] THEN a[k] < b[k]
    ELSE wordsLess(a, b, k + 1)

int64Less(a, b) ==
    wordsLess(<<(a[1] + Word \div 2) % Word, a[2], a[3], a[4]>>,
              <<(b[1] + Word \div 2) % Word, b[2], b[3], b[4]>>, 1)

MaxInt32 == 2147483647
MinInt32 == -2147483647 - 1

\* int(v) for an int64 in the 32-bit range.
intOf(w) == (IF w[3] >= Word \div 2 THEN w[3] - Word ELSE w[3]) * Word + w[4]

\* The decimal digits of 2^63, the magnitude of the least int64.
MinInt64Magnitude ==
    <<"9", "2", "2", "3", "3", "7", "2", "0", "3", "6", "8", "5", "4", "7", "7", "5", "8",
      "0", "8">>

magnitudeAbove(digits, max) ==
    LET d == stripZeros(digits)
    IN \/ Len(d) > Len(max)
       \/ Len(d) = Len(max) /\ digitsGreater(d, max, 1)

\* The sign and the digits of a token text.
IsNegative(chars) == chars # <<>> /\ chars[1] = "-"
DigitsOf(chars) ==
    IF chars # <<>> /\ chars[1] \in {"-", "+"} THEN Tail(chars) ELSE chars

\* ParseInt(s, 10, 64) fails on a text without digits, on a non-digit and
\* on a value outside the int64 range.
parseIntFails(chars) ==
    \/ DigitsOf(chars) = <<>>
    \/ \E i \in 1..Len(DigitsOf(chars)) : ~IsDigit(DigitsOf(chars)[i])
    \/ magnitudeAbove(DigitsOf(chars),
                      IF IsNegative(chars) THEN MinInt64Magnitude ELSE MaxInt64Digits)

\* The int64 ParseInt returns.
parseInt(chars) ==
    LET m == wordsOfDigits(DigitsOf(chars), 1, <<0, 0, 0, 0>>)
    IN IF IsNegative(chars) THEN negate64(m) ELSE m

\* A variant of the literal parser that takes the 32-bit bounds themselves
\* as out of range.
parseIntegerTokenExclusive(chars) ==
    IF parseIntFails(chars)
    THEN [err |-> "error parsing int value from string: " \o joinChars(chars, 1), n |-> NilNode]
    ELSE LET v == parseInt(chars)
         IN IF ~int64Less(v, int64Of(MaxInt32)) \/ ~int64Less(int64Of(MinInt32), v)
            THEN [err |-> "", n |-> newLiteral("LiteralLong", LongW(v))]
            ELSE [err |-> "", n |-> newLiteral("LiteralInteger", IntV(intOf(v)))]

\* parseTerminalExpression on an integer token: the error ("" for none) and
\* the literal node.
parseIntegerToken(chars) ==
    IF parseIntFails(chars)
    THEN [err |-> "error parsing int value from string: " \o joinChars(chars, 1), n |-> NilNode]
    ELSE LET v == parseInt(chars)
         IN IF int64Less(int64Of(MaxInt32), v) \/ int64Less(v, int64Of(MinInt32))
            THEN [err |-> "", n |-> newLiteral("LiteralLong", LongW(v))]
            ELSE [err |-> "", n |-> newLiteral("LiteralInteger", IntV(intOf(v)))]


(***************************************************************************)
(* One integer literal on its own: the token text is parsed, the literal   *)
(* is assembled into a method and the program is encoded.  hist keeps the  *)
(* token text.                                                             *)
(***************************************************************************)
Int32Prefix == <<"2", "1", "4", "7", "4", "8", "3", "6", "4">>
Int64Prefix ==
    <<"9", "2", "2", "3", "3", "7", "2", "0", "3", "6", "8", "5", "4", "7", "7", "5", "8",
      "0">>

\* Digit texts: short ones, and the ten texts around 2^31 and around 2^63.
LiteralDigits ==
    UNION {[1..k -> {"0", "1", "9"}] : k \in 0..MaxDigits}
    \cup {Int32Prefix \o <<Digits[d]>> : d \in 1..10}
    \cup {Int64Prefix \o <<Digits[d]>> : d \in 1..10}

LiteralTokens == {sign \o d : sign \in {<<>>, <<"-">>}, d \in LiteralDigits}

InitLiteral ==
    /\ pc = "token"
    /\ hist \in LiteralTokens
    /\ runtime = PipelineRuntime
    /\ nodes = <<>>
    /\ program = defineMethod(EmptyProgram, "p")
    /\ cpool = <<>>
    /\ binary = NoBinary
    /\ err = ""
    /\ call = NoCall
    /\ scan = NoScan
    /\ channel = NoChannel
    /\ collector = NoCollector

ParseLiteral ==
    /\ pc = "token"
    /\ LET r == parseIntegerToken(hist)
       IN /\ nodes' = IF r.err # "" THEN <<>> ELSE <<r.n>>
          /\ err' = r.err
          /\ pc' = IF r.err # "" THEN "error" ELSE "literal"
    /\ UNCHANGED <<runtime, program, cpool, binary, call, hist, scan, channel, collector>>

AssembleLiteral ==
    /\ pc = "literal"
    /\ LET a0 == [methods |-> program.methods, cpool |-> <<>>, err |-> ""]
           a1 == assembleNode(a0, nodes[1], 1)
       IN /\ program' = [program EXCEPT !.methods = layoutMethods(a1.methods, 1, 0)]
          /\ cpool' = a1.cpool
          /\ err' = a1.err
          /\ pc' = IF a1.err # "" THEN "error" ELSE "assembled"
    /\ UNCHANGED <<runtime, nodes, binary, call, hist, scan, channel, collector>>

NextLiteral == ParseLiteral \/ AssembleLiteral \/ EncodeProgram

SpecLiteral == InitLiteral /\ [][NextLiteral]_vars

\* The value a token text denotes lies in the 32-bit range, decided on the
\* decimal digits.
Int32MaxDigits == Int32Prefix \o <<"7">>
Int32MinMagnitude == Int32Prefix \o <<"8">>

DenotesInt32(chars) ==
    ~magnitudeAbove(DigitsOf(chars),
                    IF IsNegative(chars) /\ stripZeros(DigitsOf(chars)) # <<>>
                    THEN Int32MinMagnitude ELSE Int32MaxDigits)

\* The constant pool section of the encoded file: it follows the version
\* byte, the trigger table and the method table.
PoolSection ==
    LET start == 1 + 2 + 2 + 6 * Len(program.methods)
    IN SubSeq(binary.bytes, start + 1, Len(binary.bytes) - 4 - Len(flatten(binary.records, 1)))

\* C14: an integer literal is kept as a 32-bit integer, and pooled under tag
\* 0 with four value bytes, exactly when its value lies in -2^31..2^31-1;
\* otherwise it is a 64-bit integer pooled under tag 1 with eight value
\* bytes.  2^31-1 and -2^31 are 32-bit, 2^31 and -2^31-1 are 64-bit.
C14_IntegerLiteralWidthFollowsRange ==
    /\ pc \in {"literal", "assembled", "encoded"} =>
          /\ nodes[1].literalType =
                IF DenotesInt32(hist) THEN "LiteralInteger" ELSE "LiteralLong"
          /\ hist = Int32MaxDigits => nodes[1].value = IntV(MaxInt32)
          /\ hist = <<"-">> \o Int32MinMagnitude => nodes[1].value = IntV(MinInt32)
          /\ hist = Int32MinMagnitude => nodes[1].value = LongW(<<0, 0, 32768, 0>>)
          /\ hist = <<"-">> \o Int32Prefix \o <<"9">> =>
                nodes[1].value = LongW(<<65535, 65535, 32767, 65535>>)
    /\ pc \in {"assembled", "encoded"} =>
          /\ Len(cpool) = 1
          /\ cpool[1].Type = IF DenotesInt32(hist) THEN VarTypeInt ELSE VarTypeLong
          /\ cpool[1].Value = nodes[1].value
    /\ pc = "encoded" =>
          /\ SubSeq(PoolSection, 1, 3) = <<0, 1, IF DenotesInt32(hist) THEN 0 ELSE 1>>
          /\ Len(PoolSection) = 3 + (IF DenotesInt32(hist) THEN 4 ELSE 8)

C14_Witness ==
    /\ pc = "encoded"
    /\ hist = Int32MinMagnitude
    /\ PoolSection = <<0, 1, 1, 0, 0, 0, 0, 128, 0, 0, 0>>


(***************************************************************************)
(* Properties of the method table.                                         *)
(***************************************************************************)
\* The procedures and the triggers among the root nodes.
ProcNodes == SelectSeq(nodes, LAMBDA n : n.kind = "Proc")
TriggerNodes == SelectSeq(nodes, LAMBDA n : n.kind = "Trigger")

\* Two procedures of the program carry the same name.
HasDuplicateProc ==
    \E i, j \in 1..Len(ProcNodes) : i # j /\ ProcNodes[i].name = ProcNodes[j].name

\* C15: the methods of the program are pairwise distinct in name and in
\* index and the index of a method is its position in the method list,
\* counted from 0; a program that declares two procedures of one name is
\* rejected with an error; an accepted program with two triggers on the same
\* listener and value has one method per trigger, of distinct names and
\* indices.
C15_MethodsDistinctAndDense ==
    /\ \A i \in 1..Len(program.methods) : program.methods[i].index = i - 1
    /\ \A i, j \in 1..Len(program.methods) :
          i # j => program.methods[i].name # program.methods[j].name
    /\ (pc # "parsed" /\ HasDuplicateProc) =>
          /\ pc = "error"
          /\ \E i \in 1..Len(ProcNodes) : err = "redefining method: " \o ProcNodes[i].name
    /\ Accepted =>
          /\ Len(program.methods) = Len(nodes)
          /\ \A i, j \in 1..Len(TriggerNodes) :
                i # j =>
                   /\ TriggerNodes[i].method # TriggerNodes[j].method
                   /\ program.methods[TriggerNodes[i].method].name
                         # program.methods[TriggerNodes[j].method].name
                   /\ program.methods[TriggerNodes[i].method].index
                         # program.methods[TriggerNodes[j].method].index

\* An analyzed program of a procedure and two triggers on listener jump and
\* value 42.
C15_Witness ==
    /\ pc = "analyzed"
    /\ Len(ProcNodes) = 1
    /\ Len(TriggerNodes) = 2
    /\ {program.methods[i].name : i \in 1..Len(program.methods)}
          = {ProcNodes[1].name, "@jump@42@0", "@jump@42@1"}
    /\ TriggerNodes[1].trigger = TriggerNodes[2].trigger
    /\ TriggerNodes[1].value = TriggerNodes[2].value


(***************************************************************************)
(* Properties of the file header and the trigger table.                    *)
(***************************************************************************)
\* The bytes of the listener id of the i-th trigger record; a record is the
\* listener id (4), the entry address (4), the value count (1) and the
\* value (8).
TriggerIdBytes(bytes, i) == SubSeq(bytes, 3 + 17 * (i - 1) + 1, 3 + 17 * (i - 1) + 4)

\* C16: every run of Encode yields an output that begins with the version
\* byte 4 and the big-endian 16-bit number of triggers, followed per trigger
\* by the 32-bit InternalId of its listener; with one trigger on a listener
\* of id 7 the output starts with 04 00 01 00 00 00 07.
C16_OutputBeginsWithVersion4AndTriggerTable ==
    [][EncodeProgram =>
          /\ binary'.err = ""
          /\ SubSeq(binary'.bytes, 1, 3) = <<4>> \o BigEndian(Len(program.triggers), 2)
          /\ \A i \in 1..Len(program.triggers) :
                TriggerIdBytes(binary'.bytes, i)
                   = BigEndian(runtime.Listeners[program.triggers[i].definition].InternalId, 4)
          /\ (/\ Len(program.triggers) = 1
              /\ runtime.Listeners[program.triggers[1].definition].InternalId = 7)
                => SubSeq(binary'.bytes, 1, 7) = <<4, 0, 1, 0, 0, 0, 7>>]_vars


\* What the code does instead: the version byte is 3, and only a program
\* without triggers is encoded, since no trigger is ever given its label.
C16_VersionIs3AndTriggersAreNotEncoded ==
    /\ pc = "encoded" => binary.bytes[1] = 3 /\ program.triggers = <<>>
    /\ (pc = "error" /\ program.triggers # <<>> /\ ~HasDuplicateProc) =>
          err = "nil pointer dereference"

\* A program with one trigger on the listener of id 7 has been assembled
\* and could not be encoded.
C16_Witness ==
    /\ pc = "error" /\ err = "nil pointer dereference"
    /\ Len(program.triggers) = 1
    /\ runtime.Listeners[program.triggers[1].definition].InternalId = 7


(***************************************************************************)
(* Properties of the instruction records.                                  *)
(***************************************************************************)
\* The record the instruction table documents for an instruction.
DocumentedRecord(inst) ==
    <<inst.Opcode>>
    \o (IF inst.Opcode \in {op_pushconst, op_nativecall, op_setlocal, op_getlocal}
        THEN BigEndian(inst.cpoolIndex, 2)
        ELSE IF inst.Opcode \in {op_call, op_jz, op_jmp}
        THEN BigEndian(inst.cpoolIndex, 4)
        ELSE <<>>)

\* C17: in the encoded file the record of every non-label instruction is
\* the opcode byte followed by a 16-bit operand for PUSHCONST, NATIVECALL,
\* SETLOCAL and GETLOCAL, by a 32-bit operand for CALL, JZ and JMP, and by
\* nothing for any other opcode.
C17_RecordsCarryDocumentedOperands ==
    pc = "encoded" =>
        /\ Len(binary.records) = Len(Image)
        /\ \A k \in 1..Len(Image) : binary.records[k] = DocumentedRecord(Image[k])

\* What the code does instead: only PUSHCONST, NATIVECALL and CALL carry
\* their operand; the record of any other instruction is its opcode byte.
C17_OnlyConstantsAndCallsCarryOperands ==
    pc = "encoded" =>
        /\ Len(binary.records) = Len(Image)
        /\ \A k \in 1..Len(Image) :
              binary.records[k] =
                 IF Image[k].Opcode \in {op_pushconst, op_nativecall, op_call}
                 THEN DocumentedRecord(Image[k])
                 ELSE <<Image[k].Opcode>>

\* An encoded program with a JZ, a JMP and a SETLOCAL.
C17_Witness ==
    /\ pc = "encoded"
    /\ \A op \in {op_jz, op_jmp, op_setlocal} :
          \E k \in 1..Len(Image) : Image[k].Opcode = op /\ binary.records[k] = <<op>>


(***************************************************************************)
(* Scanner.  The text is a sequence of characters, positions count from 0  *)
(* as in the code.  A scan action that never returns sets diverged; a      *)
(* panic of the scanner goroutine sets err and ends the process.           *)
(***************************************************************************)
tokenEOF == "tokenEOF"
tokenComment == "tokenComment"
tokenIdentifier == "tokenIdentifier"
tokenOn == "tokenOn"
tokenProc == "tokenProc"
tokenIf == "tokenIf"
tokenElse == "tokenElse"
tokenLParen == "tokenLParen"
tokenRParen == "tokenRParen"
tokenInteger == "tokenInteger"
tokenSemicolon == "tokenSemicolon"
tokenLBrack == "tokenLBrack"
tokenRBrack == "tokenRBrack"
tokenAssign == "tokenAssign"
tokenString == "tokenString"
tokenComma == "tokenComma"
tokenMinus == "tokenMinus"
tokenEqual == "tokenEqual"
tokenNotEqual == "tokenNotEqual"
tokenLessThan == "tokenLessThan"
tokenGreaterThan == "tokenGreaterThan"
tokenLessOrEqual == "tokenLessOrEqual"
tokenGreaterOrEqual == "tokenGreaterOrEqual"
tokenNot == "tokenNot"

\* The character the scanner reads past the end of the text.
eof == "eof"

LowerCase ==
    {"a", "b", "c", "d", "e", "f", "g", "h", "i", "j", "k", "l", "m", "n", "o", "p", "q",
     "r", "s", "t", "u", "v", "w", "x", "y", "z"}
UpperCase ==
    {"A", "B", "C", "D", "E", "F", "G", "H", "I", "J", "K", "L", "M", "N", "O", "P", "Q",
     "R", "S", "T", "U", "V", "W", "X", "Y", "Z"}

isStartOfIdentifier(c) == c \in LowerCase \cup UpperCase \cup {"_", "$"}
isIdentifierChar(c) == isStartOfIdentifier(c) \/ IsDigit(c)
isIntegerChar(c) == IsDigit(c)
\* The characters scanAny skips.
isSpace(c) == c = NUL \/ c = " " \/ c = "\t" \/ c = "\n" \/ c = "\r"

markPosition(s, offset) == [s EXCEPT !.mark = s.pos + offset]

current(s) == IF s.pos >= Len(s.data) THEN eof ELSE s.data[s.pos + 1]

rewind(s, num) == [s EXCEPT !.pos = @ - num]

\* peek indexes the text without a bounds check.
peekPanics(s, num) == s.pos + num < 0 \/ s.pos + num >= Len(s.data)
peek(s, num) == s.data[s.pos + num + 1]

\* next: the character read and the scanner after it; at the end of the
\* text the position stays.
next(s) ==
    [c |-> current(s),
     s |-> IF s.pos >= Len(s.data) THEN s ELSE [s EXCEPT !.pos = @ + 1]]

value(s) == SubSeq(s.data, s.mark + 1, s.pos)

makeToken(s, t) ==
    IF t = tokenComment THEN s
    ELSE [s EXCEPT !.tokens = Append(@, [tokenType |-> t, value |-> value(s),
                                         from |-> s.mark, to |-> s.pos])]

scanPanic(s, msg) == [s EXCEPT !.err = msg]

\* Emit a token and go on with scanAny.
emitAndScanAny(s, t) == [makeToken(s, t) EXCEPT !.state = "scanAny"]

\* The loops of the scan actions are given by the position they leave the
\* scanner at, from the position i they find it at: next returns the
\* character at i and moves on, or returns eof and stays at the end.
RECURSIVE skipSpacesFrom(_, _)
skipSpacesFrom(data, i) ==
    IF i < Len(data) /\ isSpace(data[i + 1]) THEN skipSpacesFrom(data, i + 1) ELSE i

skipSpaces(s) == [s EXCEPT !.pos = skipSpacesFrom(s.data, s.pos)]

\* The end of scanAny, for a character c that matched no branch: the
\* position is taken back by one and the character is printed with ten
\* characters of the text.
unknownChar(s, c) ==
    LET s1 == [rewind(s, 1) EXCEPT !.unknown = TRUE]
    IN IF s1.pos < 0 \/ s1.pos + 10 > Len(s1.data)
       THEN scanPanic(s1, "slice bounds out of range")
       ELSE [s1 EXCEPT !.printed = Append(@, [char |-> c,
                                             data |-> SubSeq(s1.data, s1.pos + 1, s1.pos + 10)]),
                       !.state = "nil"]

scanTail(s, c) ==
    IF isStartOfIdentifier(c) THEN [s EXCEPT !.state = "scanIdentifier"]
    ELSE IF isIntegerChar(c) THEN [s EXCEPT !.state = "scanIntegerLiteral"]
    ELSE unknownChar(s, c)

\* The branches of scanAny for '!', '<' and '>': c = s.next() is the
\* character at the position, which is then compared with '='.
scanComparison(s, single, double) ==
    LET r == next(s)
    IN IF r.c = "="
       THEN emitAndScanAny(next(r.s).s, double)
       ELSE emitAndScanAny(r.s, single)

scanAny(s) ==
    IF current(s) = eof THEN [makeToken(s, tokenEOF) EXCEPT !.state = "nil"]
    ELSE LET s1 == markPosition(skipSpaces(s), 0)
             c == current(s1)
         IN CASE c = "/" ->
                   LET s2 == next(s1).s
                   IN IF peekPanics(s2, 0) THEN scanPanic(s2, "index out of range")
                      ELSE IF peek(s2, 0) = "/"
                      THEN [next(s2).s EXCEPT !.state = "scanSingleComment"]
                      ELSE scanTail(s2, peek(s2, 0))
              [] c = "\"" -> [s1 EXCEPT !.state = "scanString"]
              [] c = "(" -> emitAndScanAny(next(s1).s, tokenLParen)
              [] c = ")" -> emitAndScanAny(next(s1).s, tokenRParen)
              [] c = "{" -> emitAndScanAny(next(s1).s, tokenLBrack)
              [] c = "}" -> emitAndScanAny(next(s1).s, tokenRBrack)
              [] c = ";" -> emitAndScanAny(next(s1).s, tokenSemicolon)
              [] c = "=" ->
                   LET s2 == next(s1).s
                   IN IF peekPanics(s2, 0) THEN scanPanic(s2, "index out of range")
                      ELSE IF peek(s2, 0) = "="
                      THEN emitAndScanAny(next(s2).s, tokenEqual)
                      ELSE emitAndScanAny(s2, tokenAssign)
              [] c = "!" -> scanComparison(s1, tokenNot, tokenNotEqual)
              [] c = "<" -> scanComparison(s1, tokenLessThan, tokenLessOrEqual)
              [] c = ">" -> scanComparison(s1, tokenGreaterThan, tokenGreaterOrEqual)
              [] c = "," -> emitAndScanAny(next(s1).s, tokenComma)
              [] c = "-" ->
                   LET s2 == next(s1).s
                   IN IF isIntegerChar(current(s2))
                      THEN [s2 EXCEPT !.state = "scanIntegerLiteral"]
                      ELSE emitAndScanAny(s2, tokenMinus)
              [] OTHER -> scanTail(s1, c)

\* The loop of scanSingleComment: read up to a newline or the end of the
\* text, then take the position back by one.
RECURSIVE skipCommentFrom(_, _)
skipCommentFrom(data, i) ==
    IF i >= Len(data) THEN i - 1
    ELSE IF data[i + 1] = "\n" THEN (i + 1) - 1
    ELSE skipCommentFrom(data, i + 1)

skipComment(s) == [s EXCEPT !.pos = skipCommentFrom(s.data, s.pos)]

scanSingleComment(s) == emitAndScanAny(skipComment(s), tokenComment)

\* The loop of scanString: read up to the closing quote; past the end of
\* the text next returns eof for ever and the loop never ends.
RECURSIVE closingQuoteFrom(_, _)
closingQuoteFrom(data, i) ==
    IF i >= Len(data) THEN -1
    ELSE IF data[i + 1] = "\"" THEN i + 1
    ELSE closingQuoteFrom(data, i + 1)

skipString(s) ==
    IF closingQuoteFrom(s.data, s.pos) < 0 THEN [s EXCEPT !.diverged = TRUE]
    ELSE [s EXCEPT !.pos = closingQuoteFrom(s.data, s.pos)]

scanString(s) ==
    LET s1 == skipString(next(s).s)
    IN IF s1.diverged THEN [s EXCEPT !.diverged = TRUE] ELSE emitAndScanAny(s1, tokenString)

RECURSIVE skipIdentifierFrom(_, _)
skipIdentifierFrom(data, i) ==
    IF i >= Len(data) THEN i - 1
    ELSE IF ~isIdentifierChar(data[i + 1]) THEN (i + 1) - 1
    ELSE skipIdentifierFrom(data, i + 1)

skipIdentifier(s) == [s EXCEPT !.pos = skipIdentifierFrom(s.data, s.pos)]

scanIdentifier(s) ==
    LET s1 == skipIdentifier(s)
    IN CASE value(s1) = <<"o", "n">> -> emitAndScanAny(s1, tokenOn)
         [] value(s1) = <<"p", "r", "o", "c">> -> emitAndScanAny(s1, tokenProc)
         [] value(s1) = <<"i", "f">> -> emitAndScanAny(s1, tokenIf)
         [] value(s1) = <<"e", "l", "s", "e">> -> emitAndScanAny(s1, tokenElse)
         [] OTHER -> emitAndScanAny(s1, tokenIdentifier)

RECURSIVE skipIntegerFrom(_, _)
skipIntegerFrom(data, i) ==
    IF i >= Len(data) THEN i - 1
    ELSE IF ~isIntegerChar(data[i + 1]) THEN (i + 1) - 1
    ELSE skipIntegerFrom(data, i + 1)

skipInteger(s) == [s EXCEPT !.pos = skipIntegerFrom(s.data, s.pos)]

scanIntegerLiteral(s) ==
    LET s1 == IF current(s) = "-" THEN next(s).s ELSE s
    IN emitAndScanAny(skipInteger(s1), tokenInteger)


(***************************************************************************)
(* Parser.  A parser p holds the tokens, the position and the panic       *)
(* message; a parse function gives the node and the parser after it.       *)
(***************************************************************************)
eofToken == [tokenType |-> tokenEOF, value |-> <<>>, from |-> 0, to |-> 0]

parserPeek(p, ahead) ==
    IF p.pos + ahead >= Len(p.tokens) THEN eofToken ELSE p.tokens[p.pos + ahead + 1]

\* next: the token read and the parser after it.
parserNext(p) ==
    IF p.pos >= Len(p.tokens) THEN [t |-> eofToken, p |-> p]
    ELSE [t |-> p.tokens[p.pos + 1], p |-> [p EXCEPT !.pos = @ + 1]]

parserRewind(p) == IF p.pos > 0 THEN [p EXCEPT !.pos = @ - 1] ELSE p

unexpected(p, t) == [p EXCEPT !.err = "unexpected '" \o joinChars(t.value, 1) \o "'"]

\* unexpect panics when the next token has the type t.
unexpect(p, t, name) ==
    IF parserPeek(p, 0).tokenType = t
    THEN [p EXCEPT !.err = "unexpected " \o name \o ", expected one of: "]
    ELSE p

\* expect and next; after a panic nothing more is consumed.
expectConsume(p, t, name) ==
    IF p.err # "" THEN [t |-> eofToken, p |-> p]
    ELSE IF parserPeek(p, 0).tokenType # t
    THEN [t |-> eofToken,
          p |-> [p EXCEPT !.err = "unexpected " \o joinChars(parserPeek(p, 0).value, 1)
                                  \o ", expected " \o name]]
    ELSE parserNext(p)

\* Token types the parser and the assembler name.
tokenBool == "tokenBool"
tokenPlus == "tokenPlus"
tokenMultiply == "tokenMultiply"
tokenDivide == "tokenDivide"
tokenModulo == "tokenModulo"

isLogicalOperator(t) == FALSE

isEqualityOperator(t) == t = tokenEqual \/ t = tokenNotEqual

isRelationalOperator(t) ==
    t = tokenLessThan \/ t = tokenLessOrEqual \/ t = tokenGreaterThan \/ t = tokenGreaterOrEqual

isAddOrSubtract(t) == t = tokenPlus \/ t = tokenMinus

isMultiplyOrDivide(t) == t = tokenMultiply \/ t = tokenDivide

RECURSIVE parseStatement(_)
RECURSIVE parseBlockStatements(_, _)
RECURSIVE parseExpression(_)
RECURSIVE parseMethodExpr(_)
RECURSIVE parseArguments(_, _, _)
RECURSIVE argumentsWith(_, _)
RECURSIVE parseLevel(_, _)
RECURSIVE parseLevelLoop(_, _)

(***************************************************************************)
(* strconv.Unquote on the text of a string token.  The parser discards    *)
(* the error, so a text that cannot be unquoted gives the empty string.    *)
(***************************************************************************)
HexDigits == "0123456789abcdef"
HexDigitsUpper == "0123456789ABCDEF"

IsIn(s, c) == \E k \in 1..Len(s) : SubSeq(s, k, k) = c

isHexDigit(c) == IsIn(HexDigits, c) \/ IsIn(HexDigitsUpper, c)

hexVal(c) == IF IsIn(HexDigits, c) THEN IndexIn(HexDigits, c) - 1
             ELSE IndexIn(HexDigitsUpper, c) - 1

\* utf8.RuneSelf, unicode.MaxRune and the surrogate range.
RuneSelf == 128
MaxRune == 1114111
SurrogateMin == 55296
SurrogateMax == 57343

\* utf8.ValidRune
ValidRune(r) == r >= 0 /\ r <= MaxRune /\ r \notin SurrogateMin..SurrogateMax

\* utf8.AppendRune: the UTF-8 bytes of a valid rune.
EncodeRune(r) ==
    IF r < RuneSelf THEN <<r>>
    ELSE IF r < 2048 THEN <<192 + (r \div 64), 128 + (r % 64)>>
    ELSE IF r < 65536
    THEN <<224 + (r \div 4096), 128 + ((r \div 64) % 64), 128 + (r % 64)>>
    ELSE <<240 + (r \div 262144), 128 + ((r \div 4096) % 64), 128 + ((r \div 64) % 64),
           128 + (r % 64)>>

\* The number written by the n digits of the base at chars[i..], -1 when a
\* digit is missing or is no digit of the base; a number above MaxRune is
\* given as MaxRune + 1.
RECURSIVE digitsValue(_, _, _, _, _)
digitsValue(chars, i, n, base, acc) ==
    IF n = 0 THEN acc
    ELSE IF i > Len(chars) \/ ~isHexDigit(chars[i]) THEN -1
    ELSE IF hexVal(chars[i]) >= base THEN -1
    ELSE digitsValue(chars, i + 1, n - 1, base,
                     IF acc * base + hexVal(chars[i]) > MaxRune THEN MaxRune + 1
                     ELSE acc * base + hexVal(chars[i]))

\* What UnquoteChar gives: the value, whether it is written as a rune, and
\* the position after it, or the error.
Decoded(v, multibyte, after) == [ok |-> TRUE, value |-> v, multibyte |-> multibyte, next |-> after]
NotDecoded == [ok |-> FALSE, value |-> 0, multibyte |-> FALSE, next |-> 0]

\* The value of \x and of an octal escape: a byte.
byteEscape(code, after) ==
    IF code < 0 \/ code > 255 THEN NotDecoded ELSE Decoded(code, FALSE, after)

\* The value of \u and \U: a valid rune.
runeEscape(code, after) ==
    IF ~ValidRune(code) THEN NotDecoded ELSE Decoded(code, TRUE, after)

\* strconv.UnquoteChar at chars[i].
UnquoteChar(chars, quote, i) ==
    IF chars[i] = quote THEN NotDecoded
    ELSE IF chars[i] # "\\" THEN Decoded(ByteOf(chars[i]), FALSE, i + 1)
    ELSE IF i = Len(chars) THEN NotDecoded
    ELSE LET c == chars[i + 1]
         IN CASE c = "a" -> Decoded(7, FALSE, i + 2)
              [] c = "b" -> Decoded(8, FALSE, i + 2)
              [] c = "f" -> Decoded(12, FALSE, i + 2)
              [] c = "n" -> Decoded(10, FALSE, i + 2)
              [] c = "r" -> Decoded(13, FALSE, i + 2)
              [] c = "t" -> Decoded(9, FALSE, i + 2)
              [] c = "v" -> Decoded(11, FALSE, i + 2)
              [] c = "\\" -> Decoded(ByteOf(c), FALSE, i + 2)
              [] c = "\"" \/ c = "'" ->
                    IF c # quote THEN NotDecoded ELSE Decoded(ByteOf(c), FALSE, i + 2)
              [] c = "x" -> byteEscape(digitsValue(chars, i + 2, 2, 16, 0), i + 4)
              [] c = "u" -> runeEscape(digitsValue(chars, i + 2, 4, 16, 0), i + 6)
              [] c = "U" -> runeEscape(digitsValue(chars, i + 2, 8, 16, 0), i + 10)
              [] IsDigit(c) /\ DigitVal(c) < 8 ->
                    byteEscape(digitsValue(chars, i + 1, 3, 8, 0), i + 4)
              [] OTHER -> NotDecoded

\* The bytes Unquote appends for a decoded value.
appended(d) ==
    IF d.value < RuneSelf \/ ~d.multibyte THEN <<d.value>> ELSE EncodeRune(d.value)

\* The decoded bytes before the rest of the string, or the error; n counts
\* the values decoded.
prepend(bytes, rest) ==
    IF rest.ok THEN [ok |-> TRUE, s |-> bytes \o rest.s, n |-> rest.n + 1] ELSE rest

SyntaxError == [ok |-> FALSE, s |-> <<>>, n |-> 0]

\* The loop of Unquote over the text between the quotes, from position i
\* on.
RECURSIVE unquoteFrom(_, _, _)
unquoteAfter(chars, quote, d) ==
    IF ~d.ok THEN SyntaxError ELSE prepend(appended(d), unquoteFrom(chars, quote, d.next))

unquoteFrom(chars, quote, i) ==
    IF i > Len(chars) THEN [ok |-> TRUE, s |-> <<>>, n |-> 0]
    ELSE unquoteAfter(chars, quote, UnquoteChar(chars, quote, i))

\* strconv.Unquote of a text in double or single quotes; v of v, _ :=.  A
\* newline between the quotes is an error, and so is more than one
\* character between single quotes.
Unquote(chars) ==
    IF Len(chars) < 2 \/ chars[1] # chars[Len(chars)] \/ chars[1] \notin {"\"", "'"}
       \/ \E k \in 2..Len(chars) - 1 : chars[k] = "\n"
    THEN <<>>
    ELSE LET r == unquoteFrom(SubSeq(chars, 2, Len(chars) - 1), chars[1], 1)
         IN IF ~r.ok \/ (chars[1] = "'" /\ r.n > 1) THEN <<>> ELSE r.s

\* The literal of an integer token, or the panic of its conversion.
integerLiteral(r, p) == [n |-> r.n, p |-> [p EXCEPT !.err = r.err]]

\* The expression between parentheses, after its closing parenthesis.
parenthesized(expr) ==
    [n |-> expr.n, p |-> expectConsume(expr.p, tokenRParen, "')'").p]

\* parseTerminalExpression on an integer, a string, a boolean, a call, an
\* identifier, a parenthesized expression or a token that starts none.
parseTerminalExpression(p) ==
    LET tok == parserPeek(p, 0)
    IN CASE p.err # "" -> [n |-> NilNode, p |-> p]
         [] p.err = "" /\ tok.tokenType = tokenInteger ->
              integerLiteral(parseIntegerToken(tok.value), parserNext(p).p)
         [] p.err = "" /\ tok.tokenType = tokenString ->
              [n |-> newLiteral("LiteralString", StrV(Unquote(tok.value))),
               p |-> parserNext(p).p]
         [] p.err = "" /\ tok.tokenType = tokenBool ->
              [n |-> newLiteral("LiteralBoolean", BoolV(tok.value = <<"t", "r", "u", "e">>)),
               p |-> parserNext(p).p]
         [] p.err = "" /\ tok.tokenType = tokenIdentifier ->
              IF parserPeek(p, 1).tokenType = tokenLParen THEN parseMethodExpr(p)
              ELSE [n |-> newIdentifier(joinChars(tok.value, 1)), p |-> parserNext(p).p]
         [] p.err = "" /\ tok.tokenType = tokenLParen ->
              parenthesized(parseExpression(expectConsume(p, tokenLParen, "'('").p))
         [] OTHER -> [n |-> NilNode, p |-> unexpected(p, tok)]

\* newLogicalExpr(left, operator, right), with the parser after the right
\* operand.
joinOperands(left, operator, right) ==
    [n |-> newLogicalExpr(left, operator, right.n), p |-> right.p]

\* The operator test of one level of the descent.
isOperatorOf(level, t) ==
    CASE level = "MulDivide" -> isMultiplyOrDivide(t)
      [] level = "AddSubtract" -> isAddOrSubtract(t)
      [] level = "Relational" -> isRelationalOperator(t)
      [] level = "Equality" -> isEqualityOperator(t)
      [] level = "Logical" -> isLogicalOperator(t)

\* The operand of one level: the expression of the level below it.
levelBelow(level) ==
    CASE level = "AddSubtract" -> "MulDivide"
      [] level = "Relational" -> "AddSubtract"
      [] level = "Equality" -> "Relational"
      [] level = "Logical" -> "Equality"

parseOperand(level, p) ==
    IF level = "MulDivide" THEN parseTerminalExpression(p) ELSE parseLevel(levelBelow(level), p)

\* The loop of a level: l is the left operand and the parser after it; each
\* further operand is joined to the left.
parseLevelLoop(level, l) ==
    IF l.p.err # "" \/ ~isOperatorOf(level, parserPeek(l.p, 0).tokenType) THEN l
    ELSE parseLevelLoop(level, joinOperands(l.n, parserNext(l.p).t.tokenType,
                                            parseOperand(level, parserNext(l.p).p)))

\* The five functions of the descent have one shape: an operand, then the
\* loop.
parseLevel(level, p) == parseLevelLoop(level, parseOperand(level, p))

parseMulDivide(p) == parseLevel("MulDivide", p)

parseAddSubtract(p) == parseLevel("AddSubtract", p)

parseRelational(p) == parseLevel("Relational", p)

parseEquality(p) == parseLevel("Equality", p)

parseLogicalExpression(p) == parseLevel("Logical", p)

parseExpression(p) == parseLogicalExpression(p)

\* The loop of parseBlockStatement: statements up to the closing bracket.
parseBlockStatements(p, statements) ==
    IF p.err # "" \/ parserPeek(p, 0).tokenType = tokenRBrack
    THEN [n |-> newBlock(statements), p |-> p]
    ELSE LET r == parseStatement(p)
         IN parseBlockStatements(r.p, Append(statements, r.n))

parseBlockStatement(p) ==
    LET open == expectConsume(p, tokenLBrack, "'{'")
        r == parseBlockStatements(open.p, <<>>)
        close == expectConsume(r.p, tokenRBrack, "'}'")
    IN IF r.p.err # "" THEN r ELSE [n |-> r.n, p |-> close.p]

\* The condition of an if statement, after "if" and "(".
parseIfCondition(p) ==
    IF p.err # "" THEN [n |-> NilNode, p |-> p] ELSE parseExpression(p)

\* The statement of the true branch, after ")".
parseIfTrue(p) ==
    IF p.err # "" THEN [n |-> NilNode, p |-> p] ELSE parseStatement(p)

\* The statement of the false branch when an else follows.
parseIfFalse(p) ==
    IF p.err = "" /\ parserPeek(p, 0).tokenType = tokenElse
    THEN parseStatement(expectConsume(p, tokenElse, "else").p)
    ELSE [n |-> NilNode, p |-> p]

ifWithBranches(condition, ifTrue, ifFalse) ==
    [n |-> newIfStmt(condition, ifTrue.n, ifFalse.n), p |-> ifFalse.p]

ifWithTrue(condition, ifTrue) == ifWithBranches(condition, ifTrue, parseIfFalse(ifTrue.p))

ifWithCondition(condition) ==
    ifWithTrue(condition.n,
               parseIfTrue(IF condition.p.err # "" THEN condition.p
                           ELSE expectConsume(condition.p, tokenRParen, "')'").p))

parseIfStmt(p) ==
    ifWithCondition(parseIfCondition(
        expectConsume(expectConsume(p, tokenIf, "if").p, tokenLParen, "'('").p))

\* The loop of parseMethodExpr over the arguments, up to ')'.
parseArguments(p, arguments, expectComma) ==
    IF p.err # "" \/ parserPeek(p, 0).tokenType = tokenRParen
    THEN [arguments |-> arguments, p |-> p]
    ELSE IF parserPeek(p, 0).tokenType = tokenComma
    THEN IF expectComma
         THEN parseArguments(expectConsume(p, tokenComma, ",").p, arguments, FALSE)
         ELSE [arguments |-> arguments, p |-> unexpected(p, parserPeek(p, 0))]
    ELSE argumentsWith(arguments, parseExpression(p))

\* The arguments with one more expression, and the rest of the loop.
argumentsWith(arguments, expr) == parseArguments(expr.p, Append(arguments, expr.n), TRUE)

methodWithArguments(name, args) ==
    [n |-> newMethodExpr(name, args.arguments), p |-> expectConsume(args.p, tokenRParen, ")").p]

parseMethodExpr(p) ==
    LET identifier == expectConsume(p, tokenIdentifier, "method identifier")
        lparen == expectConsume(identifier.p, tokenLParen, "(")
    IN methodWithArguments(joinChars(identifier.t.value, 1), parseArguments(lparen.p, <<>>, FALSE))

\* The semicolon after a statement.
endOfStatement(r) == [n |-> r.n, p |-> expectConsume(r.p, tokenSemicolon, "';'").p]

parseMethodCall(p) == endOfStatement(parseMethodExpr(p))

\* The initializer of a declaration when '=' follows the name.
parseInitializer(p) ==
    IF p.err = "" /\ parserPeek(p, 0).tokenType = tokenAssign
    THEN parseExpression(expectConsume(p, tokenAssign, "=").p)
    ELSE [n |-> NilNode, p |-> p]

varDeclWith(varType, varName, varValue) ==
    endOfStatement([n |-> newAssignment(varType, varName, varValue.n), p |-> varValue.p])

parseVarDecl(p) ==
    LET varType == expectConsume(p, tokenIdentifier, "variable type")
        varName == expectConsume(varType.p, tokenIdentifier, "variable name")
    IN varDeclWith(joinChars(varType.t.value, 1), joinChars(varName.t.value, 1),
                   parseInitializer(varName.p))

varAssignWith(varName, varValue) ==
    endOfStatement([n |-> newVarAssign(varName, varValue.n), p |-> varValue.p])

parseVarAssign(p) ==
    LET varName == expectConsume(p, tokenIdentifier, "variable name")
        assign == expectConsume(varName.p, tokenAssign, "'='")
    IN varAssignWith(joinChars(varName.t.value, 1), parseExpression(assign.p))

\* parseStatement on a call, an assignment, a declaration, a block, an if
\* statement or a token that starts no statement.
parseStatement(p) ==
    CASE p.err # "" -> [n |-> NilNode, p |-> p]
      [] p.err = "" /\ parserPeek(p, 0).tokenType = tokenIdentifier ->
            IF parserPeek(p, 1).tokenType = tokenLParen THEN parseMethodCall(p)
            ELSE IF parserPeek(p, 1).tokenType = tokenAssign THEN parseVarAssign(p)
            ELSE parseVarDecl(p)
      [] p.err = "" /\ parserPeek(p, 0).tokenType = tokenLBrack -> parseBlockStatement(p)
      [] p.err = "" /\ parserPeek(p, 0).tokenType = tokenIf -> parseIfStmt(p)
      [] OTHER -> [n |-> NilNode, p |-> unexpected(p, parserPeek(p, 0))]

\* The declaration with its statement.
triggerWith(identifier, val, stmt) ==
    [n |-> newTrigger(joinChars(identifier.value, 1), val.value, stmt.n), p |-> stmt.p]

parseTrigger(p) ==
    LET on == expectConsume(p, tokenOn, "on")
        identifier == expectConsume(on.p, tokenIdentifier, "identifier")
        lparen == expectConsume(identifier.p, tokenLParen, "(")
        val == expectConsume(lparen.p, tokenInteger, "integer")
        rparen == expectConsume(val.p, tokenRParen, ")")
    IN triggerWith(identifier.t, val.t, parseStatement(rparen.p))

\* The keyword token of a function declaration: the parser names it
\* tokenFunc, the scanner makes it for the text proc.
tokenFunc == tokenProc

\* The loop of parseFunc over the arguments, up to ')'.
RECURSIVE parseFuncArguments(_, _, _)
parseFuncArguments(p, arguments, needsComma) ==
    IF p.err # "" \/ parserPeek(p, 0).tokenType = tokenRParen
    THEN [arguments |-> arguments, p |-> p]
    ELSE IF parserPeek(p, 0).tokenType = tokenComma
    THEN IF needsComma
         THEN parseFuncArguments(expectConsume(p, tokenComma, "','").p, arguments, FALSE)
         ELSE [arguments |-> arguments, p |-> unexpect(p, tokenComma, "','")]
    ELSE LET argType == expectConsume(p, tokenIdentifier, "argument type")
             argName == expectConsume(argType.p, tokenIdentifier, "argument name")
         IN parseFuncArguments(argName.p,
                               IF argName.p.err # "" THEN arguments
                               ELSE Append(arguments, arg(joinChars(argType.t.value, 1),
                                                          joinChars(argName.t.value, 1))),
                               TRUE)

funcWithBody(name, arguments, body) ==
    [n |-> newProc(name, body.n, arguments), p |-> body.p]

funcWithArguments(name, args) ==
    funcWithBody(name, args.arguments,
                 parseStatement(expectConsume(args.p, tokenRParen, "')").p))

parseFunc(p) ==
    LET func == expectConsume(p, tokenFunc, "func")
        name == expectConsume(func.p, tokenIdentifier, "function name")
        lparen == expectConsume(name.p, tokenLParen, "'('")
    IN funcWithArguments(joinChars(name.t.value, 1), parseFuncArguments(lparen.p, <<>>, FALSE))

parseTopLevelDecl(p) ==
    LET r == parserNext(p)
    IN CASE r.t.tokenType = tokenOn -> parseTrigger(parserRewind(r.p))
         [] r.t.tokenType = tokenFunc -> parseFunc(parserRewind(r.p))
         [] OTHER -> [n |-> NilNode, p |-> unexpected(r.p, r.t)]

RECURSIVE parserRun(_, _)
parserRun(p, ns) ==
    IF p.err # "" THEN [err |-> p.err, nodes |-> <<>>]
    ELSE IF parserPeek(p, 0).tokenType = tokenEOF THEN [err |-> "", nodes |-> ns]
    ELSE LET r == parseTopLevelDecl(p)
         IN parserRun(r.p, Append(ns, r.n))

Parse(tokens) == parserRun([tokens |-> tokens, pos |-> 0, err |-> ""], <<>>)

(***************************************************************************)
(* Scanning and parsing a text of up to MaxPieces pieces.                  *)
(***************************************************************************)
\* on jump(42){}
TriggerText == <<"o", "n", " ", "j", "u", "m", "p", "(", "4", "2", ")", "{", "}">>
DigitsText == <<"1", "2", "3", "4", "5", "6", "7", "8">>

Pieces ==
    {<<"a">>, <<"1">>, <<" ">>, <<"\n">>, <<"/">>, <<"\"">>, <<"=">>, <<"!">>, <<"<">>,
     <<">">>, <<"-">>, <<"#">>, TriggerText, DigitsText}

RECURSIVE concat(_, _)
concat(pieces, i) == IF i > Len(pieces) THEN <<>> ELSE pieces[i] \o concat(pieces, i + 1)

Texts == {concat(ps, 1) : ps \in UNION {[1..k -> Pieces] : k \in 0..MaxPieces}}

\* The number of tokens the memory of the process holds: more than a scan
\* that ends can produce from a text of the model.
TokenCap == 7 * MaxPieces + 2

InitScan ==
    /\ pc = "scanning"
    /\ scan \in {[NoScan EXCEPT !.data = text, !.state = "scanAny"] : text \in Texts}
    /\ channel = NoChannel
    /\ collector = [NoCollector EXCEPT !.state = "ranging"]
    /\ runtime = PipelineRuntime
    /\ nodes = <<>>
    /\ program = EmptyProgram
    /\ cpool = <<>>
    /\ binary = NoBinary
    /\ err = ""
    /\ call = NoCall
    /\ hist = <<>>

\* One scan action has run to the send of its token, if it makes one: the
\* token waits on the channel until the loop of ScanText receives it.  A
\* panic of the goroutine ends the process.
Scanned(s) ==
    /\ scan' = [s EXCEPT !.tokens = <<>>]
    /\ channel' = [channel EXCEPT !.buf = IF s.err # "" THEN <<>> ELSE s.tokens]
    /\ hist' = IF s.err # "" THEN hist ELSE hist \o s.tokens
    /\ err' = s.err
    /\ pc' = IF s.err # "" THEN "error" ELSE pc
    /\ UNCHANGED <<runtime, nodes, program, cpool, binary, call, collector>>

\* The loop of run calls the action of the state once the send of the last
\* token has been received.
Scanning(state) ==
    pc = "scanning" /\ scan.state = state /\ ~scan.diverged /\ channel.buf = <<>>

ScanAny == Scanning("scanAny") /\ Scanned(scanAny(scan))

ScanSingleComment == Scanning("scanSingleComment") /\ Scanned(scanSingleComment(scan))

ScanString == Scanning("scanString") /\ Scanned(scanString(scan))

ScanIdentifier == Scanning("scanIdentifier") /\ Scanned(scanIdentifier(scan))

ScanIntegerLiteral == Scanning("scanIntegerLiteral") /\ Scanned(scanIntegerLiteral(scan))

\* The loop of run has ended: close(s.tokens).
CloseChannel ==
    /\ pc = "scanning"
    /\ scan.state = "nil"
    /\ channel.buf = <<>>
    /\ ~channel.closed
    /\ channel' = [channel EXCEPT !.closed = TRUE]
    /\ UNCHANGED <<pc, runtime, nodes, program, cpool, binary, err, call, hist, scan, collector>>

\* v := <-s.tokens: the waiting send completes.
Receive ==
    /\ pc = "scanning"
    /\ collector.state = "ranging"
    /\ channel.buf # <<>>
    /\ collector' = [collector EXCEPT !.v = <<Head(channel.buf)>>, !.state = "appending"]
    /\ channel' = [channel EXCEPT !.buf = Tail(@)]
    /\ UNCHANGED <<pc, runtime, nodes, program, cpool, binary, err, call, hist, scan>>

\* A variant of the append that keeps a token only when none is waiting.
AppendTokenUnlessBusy ==
    /\ pc = "scanning"
    /\ collector.state = "appending"
    /\ collector' = [collector EXCEPT !.tokens = IF channel.buf = <<>>
                                                 THEN Append(@, collector.v[1]) ELSE @,
                                      !.v = <<>>, !.state = "ranging"]
    /\ err' = IF Len(collector'.tokens) > TokenCap THEN "out of memory" ELSE err
    /\ pc' = IF Len(collector'.tokens) > TokenCap THEN "error" ELSE pc
    /\ UNCHANGED <<runtime, nodes, program, cpool, binary, call, hist, scan, channel>>

\* tokens = append(tokens, v); the process dies when the tokens outgrow the
\* memory.
AppendToken ==
    /\ pc = "scanning"
    /\ collector.state = "appending"
    /\ collector' = [collector EXCEPT !.tokens = Append(@, collector.v[1]),
                                      !.v = <<>>, !.state = "ranging"]
    /\ err' = IF Len(collector'.tokens) > TokenCap THEN "out of memory" ELSE err
    /\ pc' = IF Len(collector'.tokens) > TokenCap THEN "error" ELSE pc
    /\ UNCHANGED <<runtime, nodes, program, cpool, binary, call, hist, scan, channel>>

\* The range loop ends on the closed channel and ScanText returns.
ReturnTokens ==
    /\ pc = "scanning"
    /\ collector.state = "ranging"
    /\ channel.buf = <<>>
    /\ channel.closed
    /\ collector' = [collector EXCEPT !.state = "returned"]
    /\ pc' = "scanned"
    /\ UNCHANGED <<runtime, nodes, program, cpool, binary, err, call, hist, scan, channel>>

\* ScanText has returned the tokens and main hands them to Parse.
ParseTokens ==
    /\ pc = "scanned"
    /\ LET r == Parse(collector.tokens)
       IN /\ nodes' = r.nodes
          /\ err' = r.err
          /\ pc' = IF r.err # "" THEN "error" ELSE "parsed"
    /\ UNCHANGED <<runtime, program, cpool, binary, call, hist, scan, channel, collector>>

\* The actions of the scanner, one for each state.
ScanStep == ScanAny \/ ScanSingleComment \/ ScanString \/ ScanIdentifier \/ ScanIntegerLiteral

NextScan ==
    \/ ScanAny \/ ScanSingleComment \/ ScanString \/ ScanIdentifier \/ ScanIntegerLiteral
    \/ CloseChannel \/ Receive \/ AppendToken \/ ReturnTokens
    \/ ParseTokens

\* The scanner goroutine and the loop of ScanText are each scheduled again
\* and again.
SpecScan ==
    /\ InitScan
    /\ [][NextScan]_vars
    /\ WF_vars(ScanStep \/ CloseChannel)
    /\ WF_vars(Receive \/ AppendToken \/ ReturnTokens)

(***************************************************************************)
(* Properties of the scanner.                                              *)
(***************************************************************************)
\* ScanText has returned its tokens.
Returned == collector.state = "returned"

\* The tokens end with an EOF token and hold no other.
EndsWithOneEOF ==
    /\ collector.tokens # <<>>
    /\ \A i \in 1..Len(collector.tokens) :
          collector.tokens[i].tokenType = tokenEOF <=> i = Len(collector.tokens)

\* The text holds identifiers, integers, brackets and white space only.
PlainText ==
    \A i \in 1..Len(scan.data) :
        \/ isIdentifierChar(scan.data[i])
        \/ isSpace(scan.data[i])
        \/ scan.data[i] \in {"(", ")", "{", "}"}

\* C18: ScanText ends on every text; the tokens it returns, unless it met
\* an unknown character, end with the one EOF token; a text of identifiers,
\* integers, brackets and white space, whatever its last character, is
\* scanned up to that EOF token.
C18_ScanTextEndsWithOneEOF ==
    /\ <>(pc # "scanning")
    /\ [](Returned /\ ~scan.unknown => EndsWithOneEOF)
    /\ PlainText => <>(Returned /\ EndsWithOneEOF)

\* What the code does: a scan that returns without an unknown character
\* ends with the one EOF token, and its text is empty or ends in a
\* character that is a token on its own or closes a string.
C18_ReturnedScansEndInPunctuation ==
    (Returned /\ ~scan.unknown) =>
        /\ EndsWithOneEOF
        /\ scan.data # <<>> =>
              LET last == scan.data[Len(scan.data)]
              IN ~isIdentifierChar(last) /\ ~isSpace(last)

\* The scan of a text that ends in an identifier has produced more tokens
\* than the text has characters, the last ones empty, and goes on.
C18_Witness ==
    /\ pc = "scanning"
    /\ scan.data # <<>> /\ isStartOfIdentifier(scan.data[Len(scan.data)])
    /\ Len(collector.tokens) > Len(scan.data) + 1
    /\ collector.tokens[Len(collector.tokens)].value = <<>>


\* The character of the text that follows token t, eof at the end.
CharAfter(t) == IF t.to >= Len(scan.data) THEN eof ELSE scan.data[t.to + 1]

\* C19: every token '!', '<', '>' or '=' is followed in the text by a
\* character other than '=', and the tokens EQUAL, NOT_EQUAL, LESS_EQ and
\* GREATER_EQ are the texts '==', '!=', '<=' and '>=': no comparison
\* operator is split into a single-character token followed by ASSIGN.
C19_TwoCharacterOperatorsAreOneToken ==
    \A i \in 1..Len(hist) :
        LET t == hist[i]
        IN /\ t.tokenType \in {tokenNot, tokenLessThan, tokenGreaterThan, tokenAssign} =>
                 CharAfter(t) # "="
           /\ t.tokenType = tokenEqual => t.value = <<"=", "=">>
           /\ t.tokenType = tokenNotEqual => t.value = <<"!", "=">>
           /\ t.tokenType = tokenLessOrEqual => t.value = <<"<", "=">>
           /\ t.tokenType = tokenGreaterOrEqual => t.value = <<">", "=">>

\* What the code does: '==' is one token, while '!', '<' and '>' are always
\* tokens of one character, whatever follows them.
C19_OnlyEqualIsJoined ==
    \A i \in 1..Len(hist) :
        LET t == hist[i]
        IN /\ t.tokenType \notin {tokenNotEqual, tokenLessOrEqual, tokenGreaterOrEqual}
           /\ t.tokenType = tokenAssign => CharAfter(t) # "="
           /\ t.tokenType = tokenEqual => t.value = <<"=", "=">>
           /\ (t.value # <<>> /\ t.value[1] \in {"!", "<", ">"}) => Len(t.value) = 1

\* The text '!=' has been scanned as NOT followed by ASSIGN.
C19_Witness ==
    \E i \in 1..Len(collector.tokens) :
        /\ i < Len(collector.tokens)
        /\ collector.tokens[i].tokenType = tokenNot
        /\ collector.tokens[i + 1].tokenType = tokenAssign
        /\ collector.tokens[i].to = collector.tokens[i + 1].from

\* ScanText has met a character that starts no token.
MetUnknownChar == scan.unknown

\* C20: when the scanner meets a character that starts no token the
\* compilation is aborted by the scanner: ScanText returns no token list,
\* and the parser neither accepts nor rejects a program.
C20_UnknownCharacterStopsCompilation ==
    MetUnknownChar => /\ pc = "error"
                      /\ scan.err # ""
                      /\ nodes = <<>>

\* What the code does: the scanner stops without an EOF token, after
\* printing the character when nine more characters follow it and with a
\* panic otherwise, and the parser takes the end of the tokens for the
\* end of the program.
C20_UnknownCharacterTruncatesTokens ==
    (MetUnknownChar /\ scan.err = "") =>
        /\ scan.state = "nil"
        /\ \A i \in 1..Len(hist) : hist[i].tokenType # tokenEOF
        /\ Len(scan.printed) = 1 /\ Len(scan.printed[1].data) = 10
        /\ pc = "parsed" => /\ collector.tokens = hist
                            /\ nodes = Parse(hist \o <<eofToken>>).nodes

\* The trigger before an unknown character has been parsed as the whole
\* program.
C20_Witness ==
    /\ pc = "parsed"
    /\ MetUnknownChar
    /\ scan.data = TriggerText \o <<"#">> \o DigitsText
    /\ nodes = <<newTrigger("jump", FortyTwo, newBlock(<<>>))>>


(***************************************************************************)
(* A trigger whose body is an if statement on one expression of up to      *)
(* MaxOperators binary operators: the tokens are parsed, the program is    *)
(* analyzed, assembled and encoded.  hist keeps the operands, the          *)
(* operators and whether the last operation is parenthesized.              *)
(***************************************************************************)
True == <<"t", "r", "u", "e">>
False == <<"f", "a", "l", "s", "e">>

\* Token type and text of each binary operator.
OperatorPieces ==
    {<<tokenEqual, <<"=", "=">>>>, <<tokenNotEqual, <<"!", "=">>>>,
     <<tokenLessThan, <<"<">>>>, <<tokenLessOrEqual, <<"<", "=">>>>,
     <<tokenGreaterThan, <<">">>>>, <<tokenGreaterOrEqual, <<">", "=">>>>,
     <<tokenPlus, <<"+">>>>, <<tokenMinus, <<"-">>>>, <<tokenMultiply, <<"*">>>>,
     <<tokenDivide, <<"/">>>>, <<tokenModulo, <<"%">>>>}

\* The i-th operand is the integer i or, in the first two places, a
\* boolean literal.
OperandPieces(i) ==
    {<<tokenInteger, <<Digits[i + 1]>>>>}
    \cup (IF i <= 2 THEN {<<tokenBool, True>>, <<tokenBool, False>>} ELSE {})

Expressions ==
    {[operands |-> operands, operators |-> operators, paren |-> paren] :
        <<operands, operators, paren>> \in
            UNION {{<<as, os, b>> : as \in {f \in [1..n + 1 -> UNION {OperandPieces(i) : i \in 1..n + 1}] :
                                               \A i \in 1..n + 1 : f[i] \in OperandPieces(i)},
                                    os \in [1..n -> OperatorPieces],
                                    b \in IF n >= 2 THEN BOOLEAN ELSE {FALSE}} :
                   n \in 0..MaxOperators}}

\* The pieces of an expression in source order.
RECURSIVE piecesFrom(_, _)
piecesFrom(e, i) ==
    LET n == Len(e.operators)
        open == IF e.paren /\ i = n THEN <<<<tokenLParen, <<"(">>>>>> ELSE <<>>
        close == IF e.paren /\ i = n + 1 THEN <<<<tokenRParen, <<")">>>>>> ELSE <<>>
    IN IF i > n + 1 THEN <<>>
       ELSE open \o <<e.operands[i]>> \o close
            \o (IF i <= n THEN <<e.operators[i]>> ELSE <<>>) \o piecesFrom(e, i + 1)

\* on jump(42) if (e) {}
ProgramPieces(e) ==
    <<<<tokenOn, <<"o", "n">>>>, <<tokenIdentifier, <<"j", "u", "m", "p">>>>,
      <<tokenLParen, <<"(">>>>, <<tokenInteger, <<"4", "2">>>>, <<tokenRParen, <<")">>>>,
      <<tokenIf, <<"i", "f">>>>, <<tokenLParen, <<"(">>>>>>
    \o piecesFrom(e, 1)
    \o <<<<tokenRParen, <<")">>>>, <<tokenLBrack, <<"{">>>>, <<tokenRBrack, <<"}">>>>>>

\* The text of the pieces, one blank between two pieces, and the tokens
\* the scanner makes of them.
RECURSIVE textOf(_, _)
textOf(pieces, i) ==
    IF i > Len(pieces) THEN <<>>
    ELSE pieces[i][2] \o (IF i < Len(pieces) THEN <<" ">> ELSE <<>>) \o textOf(pieces, i + 1)

RECURSIVE tokensOf(_, _, _)
tokensOf(pieces, i, from) ==
    IF i > Len(pieces)
    THEN <<[tokenType |-> tokenEOF, value |-> <<>>, from |-> from - 1, to |-> from - 1]>>
    ELSE <<[tokenType |-> pieces[i][1], value |-> pieces[i][2], from |-> from,
            to |-> from + Len(pieces[i][2])]>>
         \o tokensOf(pieces, i + 1, from + Len(pieces[i][2]) + 1)

InitExpr ==
    /\ pc = "scanned"
    /\ hist \in Expressions
    /\ scan = [NoScan EXCEPT !.data = textOf(ProgramPieces(hist), 1),
                             !.pos = Len(textOf(ProgramPieces(hist), 1)),
                             !.mark = Len(textOf(ProgramPieces(hist), 1))]
    /\ channel = [NoChannel EXCEPT !.closed = TRUE]
    /\ collector = [NoCollector EXCEPT !.tokens = tokensOf(ProgramPieces(hist), 1, 0),
                                       !.state = "returned"]
    /\ runtime = PipelineRuntime
    /\ nodes = <<>>
    /\ program = EmptyProgram
    /\ cpool = <<>>
    /\ binary = NoBinary
    /\ err = ""
    /\ call = NoCall

NextExpr == ParseTokens \/ Analyze \/ Assemble \/ EncodeProgram

SpecExpr == InitExpr /\ [][NextExpr]_vars



(***************************************************************************)
(* Properties of expressions.                                              *)
(***************************************************************************)
\* The pool entries the PUSHCONST instructions of the code image refer to,
\* in code order: one per literal operand, in source order.
PushedConstants ==
    LET pushes == SelectSeq(Image, LAMBDA inst : inst.Opcode = op_pushconst)
    IN [i \in 1..Len(pushes) |-> cpool[pushes[i].cpoolIndex + 1]]

Int32Entry(i) == [Type |-> VarTypeInt, Value |-> IntV(i)]

BoolOperands(text) == {i \in 1..Len(hist.operands) : hist.operands[i] = <<tokenBool, text>>}

\* C21: the boolean literal true lowers to PUSHCONST of the Int32 pool entry
\* 1 and the literal false to PUSHCONST of the Int32 pool entry 0, so the
\* two never lower to the same constant.
C21_BooleanLiteralLowersToOneOrZero ==
    pc = "assembled" =>
        /\ Len(PushedConstants) = Len(hist.operands)
        /\ \A i \in BoolOperands(True) : PushedConstants[i] = Int32Entry(1)
        /\ \A i \in BoolOperands(False) : PushedConstants[i] = Int32Entry(0)

\* What the assembler does: the parser keeps the literal as a boolean value,
\* which is never equal to the string "true", so both literals lower to
\* PUSHCONST of the Int32 pool entry 0.
C21_BothBooleanLiteralsLowerToZero ==
    pc = "assembled" =>
        /\ Len(PushedConstants) = Len(hist.operands)
        /\ \A i \in BoolOperands(True) \cup BoolOperands(False) :
              PushedConstants[i] = Int32Entry(0)

\* if (true == false) {} is assembled: both operands push the same entry.
C21_Witness ==
    /\ pc = "assembled"
    /\ hist.operands = <<<<tokenBool, True>>, <<tokenBool, False>>>>
    /\ hist.operators = <<<<tokenEqual, <<"=", "=">>>>>>
    /\ nodes[1].statement.condition.left.value = BoolV(TRUE)
    /\ nodes[1].statement.condition.right.value = BoolV(FALSE)
    /\ OpsOf(Image) = <<<<op_pushconst, 0>>, <<op_pushconst, 0>>, <<op_eq, 0>>, <<op_jz, 5>>,
                        <<op_jmp, 5>>, <<op_return, 0>>>>
    /\ cpool = <<Int32Entry(0)>>



(***************************************************************************)
(* Properties of the layout pass.                                          *)
(***************************************************************************)
\* The position of the first non-label instruction of method mi, or 0.
FirstNonLabel(mi) ==
    LET ins == program.methods[mi].instructions
        at == {j \in 1..Len(ins) : ~IsLabel(ins[j])}
    IN IF at = {} THEN 0 ELSE CHOOSE j \in at : \A k \in at : j <= k

\* C22: after the layout pass the non-label instructions of the program, in
\* method order and then instruction order, carry the addresses 0..N-1;
\* every label carries the address of the next non-label instruction in that
\* order (N when none follows); and the entry label of every method carries
\* the address of the method's first non-label instruction.
C22_AddressesAreDenseAcrossMethods ==
    Assembled =>
        /\ \A a \in 1..Len(Image) : Image[a].address = a - 1
        /\ \A mi \in 1..Len(program.methods) :
              LET ins == program.methods[mi].instructions
              IN /\ \A j \in 1..Len(ins) :
                       /\ ins[j].address = FollowingAddress(mi, j)
                       /\ ins[j].address <= Len(Image)
                 /\ program.methods[mi].entry = 1
                 /\ IsLabel(ins[1])
                 /\ FirstNonLabel(mi) # 0
                 /\ ins[1].address = ins[FirstNonLabel(mi)].address

\* A method with an if statement after another method: its addresses go on
\* from the first method's, and its labels lie beyond its entry address.
C22_Witness ==
    /\ Assembled
    /\ Len(program.methods) >= 2
    /\ program.methods[2].instructions[1].address
          = Len(NonLabels(program.methods[1].instructions))
    /\ program.methods[2].instructions[1].address >= 2
    /\ \E j \in 2..Len(program.methods[2].instructions) :
          /\ IsLabel(program.methods[2].instructions[j])
          /\ program.methods[2].instructions[j].labelFunc # 0
          /\ program.methods[2].instructions[j].address
                > program.methods[2].instructions[1].address + 1



(***************************************************************************)
(* Properties of hoisting.                                                 *)
(***************************************************************************)
\* The positions of the procedures among the top-level declarations.
ProcRoots == {k \in 1..Len(nodes) : nodes[k].kind = "Proc"}

\* The calls of a top-level declaration that are not bound to a native.
UnboundCalls(k) == {c \in NodesOfKind(nodes[k], "MethodExpr") : c.native = 0}

\* Parameter i of a procedure is local i of its method, under its name.
ParametersAreLocals(root, method) ==
    /\ Len(method.arguments) = Len(root.arguments)
    /\ \A i \in 1..Len(root.arguments) :
          /\ method.arguments[i] = i
          /\ method.variables[i].name = root.arguments[i].name
          /\ method.variables[i].index = i - 1

\* C23: in an accepted program every call that is not bound to a native is
\* bound to the method of the procedure of that name, which holds the
\* procedure's parameters as its first locals, whether the procedure is
\* declared before or after the caller; and no program is rejected as
\* "Cannot resolve local or native method" because of a call that names a
\* procedure of the program.
C23_CallsResolveToHoistedProcedures ==
    /\ Accepted =>
          \A k \in 1..Len(nodes) :
              \A c \in UnboundCalls(k) :
                  /\ c.local # 0
                  /\ \E d \in ProcRoots :
                        /\ nodes[d].name = c.name
                        /\ program.methods[c.local].name = c.name
                        /\ ParametersAreLocals(nodes[d], program.methods[c.local])
    /\ pc = "error" /\ err = "Cannot resolve local or native method" =>
          \E k \in 1..Len(nodes) :
              \E c \in NodesOfKind(nodes[k], "MethodExpr") :
                  \A d \in ProcRoots : nodes[d].name # c.name

\* A procedure calls q(1, "x") and q, with two parameters, is declared
\* after it.
C23_Witness ==
    /\ Accepted
    /\ Len(nodes) = 2
    /\ nodes[1].kind = "Proc" /\ nodes[1].name = "p"
    /\ nodes[2].kind = "Proc" /\ nodes[2].name = "q" /\ Len(nodes[2].arguments) = 2
    /\ \E c \in UnboundCalls(1) :
          /\ c.name = "q"
          /\ Len(c.parameters) = 2
          /\ c.local = 2



(***************************************************************************)
(* Properties of nested calls.                                             *)
(***************************************************************************)
\* The static type of an expression read off the source: a call has the
\* return type of the native its name and argument types select.
RECURSIVE StaticType(_, _)
StaticNative(root, c) ==
    FindFunctionWithArguments(runtime, c.name,
        [i \in 1..Len(c.parameters) |-> StaticType(root, c.parameters[i])])

StaticType(root, node) ==
    IF node.kind # "MethodExpr" THEN InferredType(root, node)
    ELSE IF StaticNative(root, node) = 0 THEN VarTypeUnresolved
    ELSE runtime.Functions[StaticNative(root, node)].ReturnType

\* The calls of a declaration that have a call among their arguments.
NestedCalls(k) ==
    {c \in NodesOfKind(nodes[k], "MethodExpr") :
        \E i \in 1..Len(c.parameters) : c.parameters[i].kind = "MethodExpr"}

\* C24: the arguments of a call are analyzed before their types are
\* gathered: a call f(g()) whose argument is a native call is never
\* rejected for an unresolved argument, and once accepted it is bound to
\* the native that the return type of g selects.
C24_NestedNativeCallIsAccepted ==
    \A k \in 1..Len(nodes) :
        \A c \in NestedCalls(k) :
            StaticNative(nodes[k], c) # 0 =>
                /\ err # "no resolved local/native func"
                /\ Accepted => c.native = StaticNative(nodes[k], c)

\* What the analyzer does: the types are gathered first, from arguments
\* that are not yet bound, so no program with a call among the arguments of
\* a call is accepted.
C24_NestedCallIsRejected ==
    \A k \in 1..Len(nodes) :
        NestedCalls(k) # {} =>
            /\ ~Accepted
            /\ pc = "error" =>
                  \/ err = "no resolved local/native func"
                  \/ nodes[k].kind = "Proc" /\ nodes[k].body.statements[1].kind # "MethodExpr"

\* proc p() { foo(len("x")); } is rejected although len returns the int
\* that foo takes.
C24_Witness ==
    /\ pc = "error"
    /\ err = "no resolved local/native func"
    /\ Len(nodes) = 1
    /\ Len(nodes[1].body.statements) = 1
    /\ nodes[1].body.statements[1].name = "foo"
    /\ StaticNative(nodes[1], nodes[1].body.statements[1]) = 1
    /\ runtime.Functions[1] = FooInt



(***************************************************************************)
(* Properties of the procedure prologue.                                   *)
(***************************************************************************)
\* The first instructions of a method, one per parameter.
Prologue(mi) ==
    SubSeq(NonLabels(program.methods[mi].instructions), 1, Len(program.methods[mi].arguments))

\* The source argument of a call that lies at a depth of the operand stack
\* when the CALL runs, the top being depth 1: the later an argument's code
\* starts, the nearer the top its value lies.
ArgAtDepth(site, depth) ==
    CHOOSE i \in 1..Len(site.n.parameters) :
        Cardinality({j \in 1..Len(site.n.parameters) :
                        ArgStart(site, j) > ArgStart(site, i)}) = depth - 1

\* The local that holds a source argument when the callee's body starts:
\* the t-th SETLOCAL of the prologue pops the value at depth t.
LocalHolding(site, i) ==
    LET t == CHOOSE t \in 1..Len(site.n.parameters) : ArgAtDepth(site, t) = i
    IN Prologue(site.n.local)[t].cpoolIndex

\* The local calls that pass as many arguments as the callee has parameters.
MatchedLocalCalls ==
    SelectSeq(LocalCallSites,
              LAMBDA s : Len(s.n.parameters) = Len(program.methods[s.n.local].arguments))

\* C25: the code of a procedure with n parameters begins with SETLOCAL 0,
\* SETLOCAL 1, ..., SETLOCAL n-1 in that order; as the caller pushes its
\* arguments last-first, local i-1 holds the i-th source argument when the
\* body starts.
C25_PrologueStoresParametersInOrder ==
    Assembled =>
        /\ \A k \in ProcRoots :
              LET mi == MethodOf(nodes[k])
              IN /\ Len(program.methods[mi].arguments) = Len(nodes[k].arguments)
                 /\ Len(NonLabels(program.methods[mi].instructions))
                       > Len(nodes[k].arguments)
                 /\ OpsOf(Prologue(mi))
                       = [i \in 1..Len(nodes[k].arguments) |-> <<op_setlocal, i - 1>>]
        /\ \A k \in 1..Len(MatchedLocalCalls) :
              LET site == MatchedLocalCalls[k]
              IN \A i \in 1..Len(site.n.parameters) :
                    /\ PushesAtom(site.n.parameters[i], ArgStart(site, i))
                    /\ LocalHolding(site, i) = i - 1

\* p calls q(1, "x") and q has the parameters (int a, string b): the
\* string is pushed first, and SETLOCAL 0 pops the integer.
C25_Witness ==
    /\ Assembled
    /\ \E k \in 1..Len(MatchedLocalCalls) :
          LET site == MatchedLocalCalls[k]
          IN /\ Len(site.n.parameters) = 2
             /\ site.n.parameters[1] = Int1
             /\ site.n.parameters[2] = StrX
             /\ ArgStart(site, 2) < ArgStart(site, 1)
             /\ OpsOf(Prologue(site.n.local)) = <<<<op_setlocal, 0>>, <<op_setlocal, 1>>>>
             /\ program.methods[site.n.local].variables[1].typ = VarTypeInt



(***************************************************************************)
(* Properties of expression parsing.                                       *)
(***************************************************************************)
\* The binding strength of a binary operator: the higher, the tighter.
Level(t) ==
    CASE t \in {tokenEqual, tokenNotEqual} -> 1
      [] t \in {tokenLessThan, tokenLessOrEqual, tokenGreaterThan, tokenGreaterOrEqual} -> 2
      [] t \in {tokenPlus, tokenMinus} -> 3
      [] t \in {tokenMultiply, tokenDivide, tokenModulo} -> 4

\* The literal an operand piece denotes.
OperandNode(piece) ==
    IF piece[1] = tokenBool THEN newLiteral("LiteralBoolean", BoolV(piece[2] = True))
    ELSE newLiteral("LiteralInteger", IntV(DigitVal(piece[2][1])))

\* The tree of items joined by operators: the root is the last of the
\* operators that bind least, so that one level associates to the left.
RECURSIVE TreeOf(_, _)
TreeOf(items, operators) ==
    IF operators = <<>> THEN items[1]
    ELSE LET n == Len(operators)
             least == CHOOSE l \in 1..4 :
                         /\ \E k \in 1..n : Level(operators[k]) = l
                         /\ \A k \in 1..n : Level(operators[k]) >= l
             root == CHOOSE k \in 1..n :
                        /\ Level(operators[k]) = least
                        /\ \A j \in (k + 1)..n : Level(operators[j]) > least
         IN newLogicalExpr(TreeOf(SubSeq(items, 1, root), SubSeq(operators, 1, root - 1)),
                           operators[root],
                           TreeOf(SubSeq(items, root + 1, n + 1), SubSeq(operators, root + 1, n)))

\* The tree the expression of hist denotes.
ExpectedTree ==
    LET n == Len(hist.operators)
        leaves == [i \in 1..n + 1 |-> OperandNode(hist.operands[i])]
        types == [i \in 1..n |-> hist.operators[i][1]]
    IN IF hist.paren
       THEN TreeOf(Append(SubSeq(leaves, 1, n - 1),
                          newLogicalExpr(leaves[n], types[n], leaves[n + 1])),
                   SubSeq(types, 1, n - 1))
       ELSE TreeOf(leaves, types)

HasModulo == \E k \in 1..Len(hist.operators) : hist.operators[k][1] = tokenModulo

Parsed == pc # "scanned"

\* C26: every expression over == != < <= > >= + - * / % is parsed, and its
\* tree is the one in which * / % bind tighter than + -, these tighter than
\* the relational operators, these tighter than == and !=, and operators of
\* one level associate to the left.
C26_PrecedenceAndLeftAssociativity ==
    Parsed =>
        /\ Len(nodes) = 1
        /\ nodes[1].statement.condition = ExpectedTree

\* What the parser does: the same, except that an expression with % is
\* rejected at the % sign.
C26_ModuloIsRejected ==
    Parsed =>
        IF HasModulo
        THEN pc = "error" /\ nodes = <<>> /\ err = "unexpected %, expected ')'"
        ELSE Len(nodes) = 1 /\ nodes[1].statement.condition = ExpectedTree

\* if (1 - 2 % 3) {} is rejected by the parser.
C26_Witness ==
    /\ pc = "error"
    /\ ~hist.paren
    /\ hist.operands = <<<<tokenInteger, <<"1">>>>, <<tokenInteger, <<"2">>>>,
                         <<tokenInteger, <<"3">>>>>>
    /\ hist.operators = <<<<tokenMinus, <<"-">>>>, <<tokenModulo, <<"%">>>>>>
    /\ ExpectedTree = newLogicalExpr(OperandNode(hist.operands[1]), tokenMinus,
                                     newLogicalExpr(OperandNode(hist.operands[2]), tokenModulo,
                                                    OperandNode(hist.operands[3])))
    /\ nodes = <<>>



(***************************************************************************)
(* Properties of expression lowering.                                      *)
(***************************************************************************)
\* The operators that have an opcode, and their opcodes.
OperatorOpcodes ==
    {<<tokenEqual, op_eq>>, <<tokenPlus, op_add>>, <<tokenMinus, op_sub>>,
     <<tokenMultiply, op_mul>>, <<tokenDivide, op_div>>, <<tokenModulo, op_mod>>}

AllOpcodes ==
    {op_pushconst, op_jmp, op_getlocal, op_setlocal, op_return, op_jz, op_eq, op_call,
     op_nativecall, op_add, op_sub, op_div, op_mul, op_mod, op_label}

\* An instruction is the operator opcode of a token type: the opcode of the
\* table, or for NEQ, LESS, LESSEQ, MORE and MOREEQ one that is no other
\* instruction's.
IsOpcodeOf(inst, t) ==
    IF \E pair \in OperatorOpcodes : pair[1] = t
    THEN <<t, inst.Opcode>> \in OperatorOpcodes
    ELSE inst.Opcode \notin AllOpcodes

\* The code at an address is the lowering of a tree of literals: left,
\* right, operator.
RECURSIVE IsLowered(_, _)
IsLowered(node, address) ==
    IF node.kind = "LogicalExpr"
    THEN /\ IsLowered(node.left, address)
         /\ IsLowered(node.right, address + Size(node.left))
         /\ IsOpcodeOf(At(address + Size(node.left) + Size(node.right)), node.comparator)
    ELSE At(address).Opcode = op_pushconst

\* The change of the operand stack depth over a run of pushes and binary
\* operators.
RECURSIVE StackEffect(_, _)
StackEffect(code, i) ==
    IF i > Len(code) THEN 0
    ELSE (IF code[i].Opcode = op_pushconst THEN 1 ELSE -1) + StackEffect(code, i + 1)

OperatorsUsed == {hist.operators[k][1] : k \in 1..Len(hist.operators)}

\* C27: no expression that the parser accepts makes the assembler fail, and
\* the code of the expression is the left operand's code, the right
\* operand's code and one operator opcode, with net stack effect +1.
C27_EveryOperatorIsLowered ==
    /\ err # "unknown comparator node!"
    /\ pc = "assembled" =>
          /\ Len(Image) > Size(ExpectedTree)
          /\ IsLowered(nodes[1].statement.condition, 0)
          /\ StackEffect(SubSeq(Image, 1, Size(nodes[1].statement.condition)), 1) = 1
          /\ At(Size(nodes[1].statement.condition)).Opcode = op_jz

\* What the assembler does: expressions over == + - * / are lowered so, and
\* an accepted expression with != < <= > or >= makes the assembler panic.
C27_OnlyEqualityAndArithmeticAreLowered ==
    /\ pc = "assembled" =>
          /\ OperatorsUsed \subseteq {tokenEqual, tokenPlus, tokenMinus, tokenMultiply,
                                      tokenDivide}
          /\ Len(Image) > Size(ExpectedTree)
          /\ IsLowered(nodes[1].statement.condition, 0)
          /\ StackEffect(SubSeq(Image, 1, Size(nodes[1].statement.condition)), 1) = 1
          /\ At(Size(nodes[1].statement.condition)).Opcode = op_jz
    /\ err = "unknown comparator node!" =>
          /\ pc = "error"
          /\ OperatorsUsed \cap {tokenNotEqual, tokenLessThan, tokenLessOrEqual,
                                  tokenGreaterThan, tokenGreaterOrEqual} # {}

\* if (1 < 2) {} is parsed and analyzed, and the assembler panics.
C27_Witness ==
    /\ pc = "error"
    /\ err = "unknown comparator node!"
    /\ hist.operators = <<<<tokenLessThan, <<"<">>>>>>
    /\ nodes[1].statement.condition = ExpectedTree
    /\ binary = NoBinary



(***************************************************************************)
(* The local table of one procedure: the header is defined, then up to     *)
(* MaxDecls variables are declared in its body, in any block.  hist keeps, *)
(* per declaration, the name and the number of locals before it.           *)
(***************************************************************************)
LocalNames == {"a", "b"}
LocalTypes == {"int", "string", "native<a>b>"}

Headers ==
    {newProc("p", newBlock(<<>>), arguments) :
        arguments \in SeqsUpTo({arg(t, name) : t \in LocalTypes, name \in LocalNames}, MaxArgs)}

InitLocals ==
    /\ pc = "header"
    /\ nodes \in {<<h>> : h \in Headers}
    /\ runtime = PipelineRuntime
    /\ program = EmptyProgram
    /\ cpool = <<>>
    /\ binary = NoBinary
    /\ err = ""
    /\ call = NoCall
    /\ hist = <<>>
    /\ scan = NoScan
    /\ channel = NoChannel
    /\ collector = NoCollector

\* The hoisting loop comes to the procedure.
DefineProcedure ==
    /\ pc = "header"
    /\ program' = defineProc(program, nodes[1])
    /\ err' = program'.err
    /\ pc' = IF program'.err # "" THEN "error" ELSE "body"
    /\ UNCHANGED <<runtime, nodes, cpool, binary, call, hist, scan, channel, collector>>

\* The analysis of the body comes to a variable declaration.
DeclareVariable ==
    /\ pc = "body"
    /\ Len(hist) < MaxDecls
    /\ \E name \in LocalNames, t \in LocalTypes :
          LET r == analyzeVarDecl(program, newAssignment(t, name, NilNode), 1)
          IN /\ program' = r.p
             /\ err' = r.p.err
             /\ pc' = IF r.p.err # "" THEN "error" ELSE "body"
             /\ hist' = Append(hist, [name |-> name,
                                      before |-> Len(program.methods[1].variables)])
    /\ UNCHANGED <<runtime, nodes, cpool, binary, call, scan, channel, collector>>

NextLocals == DefineProcedure \/ DeclareVariable

SpecLocals == InitLocals /\ [][NextLocals]_vars

(***************************************************************************)
(* Properties of the local table.                                          *)
(***************************************************************************)
Locals == program.methods[1].variables

LocalsBefore(k) == {Locals[i].name : i \in 1..hist[k].before}

\* Each local's index is its position, and the parameters are the first
\* locals, in the order of the header.
IndicesArePositions ==
    /\ \A i \in 1..Len(Locals) : Locals[i].index = i - 1
    /\ program.methods[1].lvtIndex = Len(Locals)
    /\ Len(program.methods[1].arguments) = Len(nodes[1].arguments)
    /\ \A i \in 1..Len(nodes[1].arguments) :
          /\ program.methods[1].arguments[i] = i
          /\ Locals[i].name = nodes[1].arguments[i].name

RepeatsParameter ==
    \E i, j \in 1..Len(nodes[1].arguments) :
        i # j /\ nodes[1].arguments[i].name = nodes[1].arguments[j].name

\* The last declaration names a local that exists already.
Redeclares == hist # <<>> /\ hist[Len(hist)].name \in LocalsBefore(Len(hist))

\* C28: after the header and any declarations, the names of the locals are
\* pairwise distinct and each local's index is its position, the
\* parameters first; a declaration of a name that is already a local, and
\* a header that repeats a parameter name, is an error and adds no local.
C28_LocalNamesAreDistinct ==
    /\ pc = "body" =>
          /\ IndicesArePositions
          /\ \A i, j \in 1..Len(Locals) : Locals[i].name = Locals[j].name => i = j
    /\ pc # "header" /\ RepeatsParameter =>
          /\ pc = "error"
          /\ \A i, j \in 1..Len(Locals) : Locals[i].name = Locals[j].name => i = j
    /\ Redeclares =>
          /\ pc = "error"
          /\ Len(Locals) = hist[Len(hist)].before

\* What the analyzer does: a declaration in the body is checked against
\* the locals, but the header is not, so parameter names may repeat.
C28_OnlyDeclarationsAreChecked ==
    /\ pc = "body" =>
          /\ IndicesArePositions
          /\ \A i, j \in (Len(nodes[1].arguments) + 1)..Len(Locals) :
                Locals[i].name = Locals[j].name => i = j
          /\ \A i \in 1..Len(nodes[1].arguments) :
                \A j \in (Len(nodes[1].arguments) + 1)..Len(Locals) :
                    Locals[i].name # Locals[j].name
    /\ pc # "header" /\ hist = <<>> => pc = "body"
    /\ Redeclares =>
          /\ pc = "error"
          /\ err = "variable redeclared"
          /\ Len(Locals) = hist[Len(hist)].before

\* proc p(int a, string a) has been defined: two locals are named a.
C28_Witness ==
    /\ pc = "body"
    /\ nodes[1].arguments = <<arg("int", "a"), arg("string", "a")>>
    /\ Len(Locals) = 2
    /\ Locals[1].name = "a" /\ Locals[2].name = "a"
    /\ Locals[1].index = 0 /\ Locals[2].index = 1



(***************************************************************************)
(* Properties of the arity of local calls.                                 *)
(***************************************************************************)
\* The number of SETLOCAL instructions at the start of a method's code.
RECURSIVE setlocalsFrom(_, _)
setlocalsFrom(code, i) ==
    IF i > Len(code) \/ code[i].Opcode # op_setlocal THEN 0
    ELSE 1 + setlocalsFrom(code, i + 1)

\* The values a call site pushes before its CALL: the instructions between
\* the start of its code and the CALL are the code of its arguments, one
\* value each.
PushedValues(site) == Len(site.n.parameters)

\* C29: in an assembled program every CALL of a procedure is preceded by as
\* many argument values as the callee's prologue pops, which is the
\* callee's parameter count.
C29_LocalCallArityMatchesPrologue ==
    Assembled =>
        \A k \in 1..Len(LocalCallSites) :
            LET site == LocalCallSites[k]
                callee == program.methods[site.n.local]
            IN /\ At(CallAddress(site)).Opcode = op_call
               /\ CallAddress(site) - site.at = sizeOfList(site.n.parameters, 1)
               /\ setlocalsFrom(NonLabels(callee.instructions), 1) = Len(callee.arguments)
               /\ PushedValues(site) = setlocalsFrom(NonLabels(callee.instructions), 1)

\* What the analyzer does: a call that matches no native is bound to the
\* procedure of its name, whatever the number of its arguments.
C29_LocalCallsAreBoundByName ==
    Assembled =>
        \A k \in 1..Len(LocalCallSites) :
            LET site == LocalCallSites[k]
                callee == program.methods[site.n.local]
            IN /\ At(CallAddress(site)).Opcode = op_call
               /\ callee.name = site.n.name
               /\ setlocalsFrom(NonLabels(callee.instructions), 1) = Len(callee.arguments)
               /\ OpsOf(Prologue(site.n.local))
                     = [i \in 1..Len(callee.arguments) |-> <<op_setlocal, i - 1>>]

\* p calls q(1) and q has the parameters (int a, string b): one value is
\* pushed and the prologue of q pops two.
C29_Witness ==
    /\ Assembled
    /\ \E k \in 1..Len(LocalCallSites) :
          LET site == LocalCallSites[k]
          IN /\ site.n.name = "q"
             /\ site.n.parameters = <<Int1>>
             /\ At(site.at).Opcode = op_pushconst
             /\ At(site.at + 1).Opcode = op_call
             /\ setlocalsFrom(NonLabels(program.methods[site.n.local].instructions), 1) = 2



(***************************************************************************)
(* The token channel on short texts: the scanner goroutine and the loop of *)
(* ScanText under every interleaving.  channel.buf holds the token of a    *)
(* send that waits for the receiver; hist keeps the tokens the scanner has *)
(* sent or is sending, in order.                                           *)
(***************************************************************************)
\* //x and a newline
CommentText == <<"/", "/", "x", "\n">>

ChannelPieces ==
    {<<"a">>, <<"1">>, <<" ">>, <<NUL>>, <<"=">>, <<"\"">>, <<"#">>, CommentText, TriggerText}

ChannelTexts ==
    {concat(ps, 1) : ps \in UNION {[1..k -> ChannelPieces] : k \in 0..MaxPieces - 1}}

\* After go s.run() and the first assignment of run's loop.
InitChannel ==
    /\ pc = "scanning"
    /\ scan \in {[NoScan EXCEPT !.data = text, !.state = "scanAny"] : text \in ChannelTexts}
    /\ channel = NoChannel
    /\ collector = [NoCollector EXCEPT !.state = "ranging"]
    /\ runtime = PipelineRuntime
    /\ nodes = <<>>
    /\ program = EmptyProgram
    /\ cpool = <<>>
    /\ binary = NoBinary
    /\ err = ""
    /\ call = NoCall
    /\ hist = <<>>

NextChannel == ScanStep \/ CloseChannel \/ Receive \/ AppendToken \/ ReturnTokens

SpecChannel ==
    /\ InitChannel
    /\ [][NextChannel]_vars
    /\ WF_vars(ScanStep \/ CloseChannel)
    /\ WF_vars(Receive \/ AppendToken \/ ReturnTokens)

(***************************************************************************)
(* Properties of the token channel.                                        *)
(***************************************************************************)
\* The tokens that have left the scanner, in order: those appended, the one
\* received and not yet appended, and the one waiting in the send.
Delivered == collector.tokens \o collector.v \o channel.buf

\* C30: ScanText returns exactly the non-comment tokens the scanner sent,
\* in the order sent, none lost and none twice, and only after the scanner
\* has run to its end and closed the channel; while both run, one of them
\* can always take a step; and once the scanner has closed the channel the
\* loop of ScanText ends.
C30_ScanTextReturnsWhatTheScannerSent ==
    /\ [](Delivered = hist)
    /\ [](\A k \in 1..Len(hist) : hist[k].tokenType # tokenComment)
    /\ [](collector.state = "returned" =>
             /\ collector.tokens = hist
             /\ channel.closed
             /\ scan.state = "nil")
    /\ [](pc = "scanning" /\ ~scan.diverged => ENABLED NextChannel)
    /\ (channel.closed ~> collector.state = "returned")

\* ScanText has returned the eight tokens of a trigger that follows a
\* comment.
C30_Witness ==
    /\ pc = "scanned"
    /\ collector.state = "returned"
    /\ scan.data = CommentText \o TriggerText
    /\ Len(collector.tokens) = 8
    /\ collector.tokens[1].tokenType = tokenOn
    /\ collector.tokens[8].tokenType = tokenEOF

====
